---- MODULE Spec2Model ----
(***************************************************************************)
(* mailtime: the IMAP synchronisation and local-cache reconciliation       *)
(* engine of one account tab (src/widgets.py, class MailTab) with its      *)
(* worker threads (src/workers.py), an IMAP server holding the account's   *)
(* folders, and the account's cache file.                                  *)
(*                                                                         *)
(* Three specifications live in this module:                               *)
(*   Spec       the tab, its workers, the server and the cache file        *)
(*   SpecWorker the retry loop of one IMAPWorker / IMAPDeleteWorker run    *)
(*   SpecMerge  the single-folder and all-folders merges on drawn inputs   *)
(***************************************************************************)
EXTENDS Integers, Sequences, FiniteSets, TLC

VARIABLES
    server,     \* IMAP server: folder name -> sequence of messages, by sequence number
    flagged,    \* messages carrying the \Deleted flag, not yet expunged
    disk,       \* the account's cache file: <<>> (no file) or <<emails>>
    host,       \* the effective IMAP host of the account ("" when none is configured)
    tab,        \* the MailTab object, its worker threads and the log of the last step
    clicks,     \* number of user actions taken so far
    run,        \* SpecWorker: one worker run
    mg,         \* SpecMerge: a cache, a batch and the merges applied to them
    ft,         \* SpecFetch: one call of the fetcher on a folder
    rs,         \* SpecResolve: one run of the folder name resolver
    io,         \* SpecCache: the cache file of an account and its persistence workers
    app         \* SpecApp: the main window, its configuration and the threads it started

vars == <<server, flagged, disk, host, tab, clicks, run, mg, ft, rs, io, app>>

-----------------------------------------------------------------------------
(* Bounds of the model *)

MaxClicks == 2      \* user actions in one behaviour of Spec
MaxBatch == 3       \* SpecMerge: records in a fetched batch
MaxCache == 1       \* SpecMerge: records in the cache before the merge
MaxIds == 30        \* SpecFetch: messages in the folder fetched

(* Program constants *)

max_retries == 3
sync_base_timeout == 15
sync_timeout_step == 5
delete_base_timeout == 5
delete_timeout_step == 2
FETCH_LIMIT == 25
ALL_FOLDERS_LIMIT == 200

-----------------------------------------------------------------------------
(* The environment: messages on the server.  A message is named by a      *)
(* number; its headers, its UID and its date are fixed attributes.  The    *)
(* position of a message in its folder is its sequence number; UIDs are    *)
(* assigned by the server and need not equal sequence numbers (here the    *)
(* UIDs of INBOX are 2, 3, 4 at sequence numbers 1, 2, 3).                 *)

InboxMessages == <<2, 3, 4>>
WorkMessages == <<12>>

SubjectOf(m) == IF m % 2 = 1 THEN "s1" ELSE "s2"
FromOf(m) == "alice"
DateOf(m) == m % 10
UidOf(m) == m % 10

ServerFolder(name) == IF name \in {"Inbox", "INBOX"} THEN "INBOX" ELSE name

-----------------------------------------------------------------------------
(* Sequences as Python lists *)

Min(a, b) == IF a < b THEN a ELSE b
Max(a, b) == IF a > b THEN a ELSE b

\* s[:n]
FirstN(s, n) == SubSeq(s, 1, Min(n, Len(s)))

\* s[-n:]
LastN(s, n) == SubSeq(s, Max(1, Len(s) - n + 1), Len(s))

\* sorted(s, key=..., reverse=True), keys[i] being the key of s[i]: descending
\* by key, equal keys keep their order
SortedReverse(s, keys) ==
    LET n == Len(s)
        pos == [i \in 1..n |->
                   1 + Cardinality({j \in 1..n : keys[j] > keys[i]})
                     + Cardinality({j \in 1..(i - 1) : keys[j] = keys[i]})]
    IN  [p \in 1..n |-> s[CHOOSE i \in 1..n : pos[i] = p]]

\* key=lambda x: x.get('date', '')
DateKeys(emails) == [i \in DOMAIN emails |-> emails[i].date]

RemoveAt(s, i) == SubSeq(s, 1, i - 1) \o SubSeq(s, i + 1, Len(s))

Range(s) == {s[i] : i \in DOMAIN s}

-----------------------------------------------------------------------------
(* Strings: str.lower and str.upper on the ASCII letters *)

UpperLetters == "ABCDEFGHIJKLMNOPQRSTUVWXYZ"
LowerLetters == "abcdefghijklmnopqrstuvwxyz"

\* the character of to at the place c has in from, c itself if it has none
MapChar(c, from, to) ==
    IF \E k \in 1..Len(from) : SubSeq(from, k, k) = c
    THEN LET k == CHOOSE k \in 1..Len(from) : SubSeq(from, k, k) = c
         IN  SubSeq(to, k, k)
    ELSE c

\* str.lower()
RECURSIVE Lower(_)
Lower(s) ==
    IF s = "" THEN ""
    ELSE MapChar(SubSeq(s, 1, 1), UpperLetters, LowerLetters) \o Lower(SubSeq(s, 2, Len(s)))

\* str.upper()
RECURSIVE Upper(_)
Upper(s) ==
    IF s = "" THEN ""
    ELSE MapChar(SubSeq(s, 1, 1), LowerLetters, UpperLetters) \o Upper(SubSeq(s, 2, Len(s)))

-----------------------------------------------------------------------------
(* IMAPWorker._fetch_folder_emails *)

\* the IDs the fetcher processes, in processing order
SelectIds(email_ids) == LastN(SortedReverse(email_ids, email_ids), FETCH_LIMIT)

\* the record parsed from message m fetched under sequence number email_id
ParseEmail(email_id, m) ==
    [id |-> email_id, from |-> FromOf(m), subject |-> SubjectOf(m),
     date |-> DateOf(m), body |-> m, folder |-> ""]

FetchFolderEmails(box) ==
    LET email_ids == [i \in 1..Len(box) |-> i]
        ids == SelectIds(email_ids)
    IN  [k \in 1..Len(ids) |-> ParseEmail(ids[k], box[ids[k]])]

-----------------------------------------------------------------------------
(* The retry loops: IMAPWorker.run and IMAPDeleteWorker.run.  A worker     *)
(* thread is a record; attempt counts the loop iterations completed, out   *)
(* holds the signals emitted (in Spec: emitted and not yet handled by the  *)
(* main thread), done says that run() has returned.                        *)

Timeout(base_timeout, step, attempt) == base_timeout + attempt * step

\* variant: a pause follows every failed attempt
PauseAfterEveryFailure(attempt) == 1

\* the seconds slept in an except clause of the loop iteration attempt
\* (0, 1, 2): time.sleep(1) unless it was the last one
Pause(attempt) == IF attempt < max_retries - 1 THEN 1 ELSE 0

NewThread ==
    [attempt |-> 0, last_error |-> <<>>, out |-> <<>>, done |-> FALSE]

\* last_error after a failed sync attempt: the timeout text or str(e)
SyncLastError(cause, attempt) ==
    IF cause = "timeout"
    THEN [text |-> "Connection timeout after",
          seconds |-> Timeout(sync_base_timeout, sync_timeout_step, attempt)]
    ELSE [text |-> cause, seconds |-> 0]

DeleteLastError(cause, attempt) ==
    IF cause = "timeout"
    THEN [text |-> "Delete timeout after",
          seconds |-> Timeout(delete_base_timeout, delete_timeout_step, attempt)]
    ELSE [text |-> cause, seconds |-> 0]

\* the tail of run(): all retries failed
SyncAllRetriesFailed(w) ==
    [w EXCEPT !.done = TRUE,
              !.out = @ \o << [sig |-> "connection_status", status |-> "False"],
                              [sig |-> "error",
                               msg |-> [prefix |-> "Connection failed after",
                                        attempts |-> max_retries,
                                        last_error |-> Head(w.last_error)]] >>]

\* variant: last_error keeps the first failure
IMAPWorkerFailKeepsFirstError(w, cause) ==
    LET w1 == [w EXCEPT !.attempt = @ + 1,
                        !.last_error = IF @ = <<>> THEN <<SyncLastError(cause, w.attempt)>>
                                       ELSE @]
    IN  IF w1.attempt < max_retries THEN w1 ELSE SyncAllRetriesFailed(w1)

\* one iteration of IMAPWorker.run that ends in an except clause
IMAPWorkerFail(w, cause) ==
    LET w1 == [w EXCEPT !.attempt = @ + 1,
                        !.last_error = <<SyncLastError(cause, w.attempt)>>]
    IN  IF w1.attempt < max_retries THEN w1 ELSE SyncAllRetriesFailed(w1)

\* one iteration of IMAPWorker.run in which _fetch_emails returns emails
IMAPWorkerSuccess(w, emails) ==
    [w EXCEPT !.attempt = @ + 1, !.done = TRUE,
              !.out = @ \o << [sig |-> "connection_status", status |-> "True"],
                              [sig |-> "finished", emails |-> emails] >>]

DeleteAllRetriesFailed(w) ==
    [w EXCEPT !.done = TRUE,
              !.out = @ \o << [sig |-> "error",
                               msg |-> [prefix |-> "Delete failed after",
                                        attempts |-> max_retries,
                                        last_error |-> Head(w.last_error)]] >>]

\* variant: every failed attempt emits the error signal
IMAPDeleteWorkerFailSurfacesEach(w, cause) ==
    LET w1 == [w EXCEPT !.attempt = @ + 1,
                        !.last_error = <<DeleteLastError(cause, w.attempt)>>]
        w2 == DeleteAllRetriesFailed(w1)
    IN  [w2 EXCEPT !.done = (w1.attempt >= max_retries)]

\* one iteration of IMAPDeleteWorker.run that ends in an except clause
IMAPDeleteWorkerFail(w, cause) ==
    LET w1 == [w EXCEPT !.attempt = @ + 1,
                        !.last_error = <<DeleteLastError(cause, w.attempt)>>]
    IN  IF w1.attempt < max_retries THEN w1 ELSE DeleteAllRetriesFailed(w1)

\* variant: a message that is not found counts as a failed attempt
IMAPDeleteWorkerNotFoundFails(w, success) ==
    IF success
    THEN [w EXCEPT !.attempt = @ + 1, !.done = TRUE,
                   !.out = @ \o << [sig |-> "deleted", success |-> TRUE,
                                    message |-> "Email deleted successfully from server"] >>]
    ELSE IMAPDeleteWorkerFail(w, "Email not found")

\* one iteration of IMAPDeleteWorker.run in which _delete_email returns success
IMAPDeleteWorkerSuccess(w, success) ==
    [w EXCEPT !.attempt = @ + 1, !.done = TRUE,
              !.out = @ \o << [sig |-> "deleted", success |-> TRUE,
                               message |-> IF success THEN "Email deleted successfully from server"
                                           ELSE "Email not found on server (may already be deleted)"] >>]

-----------------------------------------------------------------------------
(* IMAPDeleteWorker._delete_email against the server.  fault names the     *)
(* await at which the attempt raises or is timed out: "connect" (before    *)
(* the search), "store" (after the store, before the expunge), "logout"    *)
(* (at the logout: after the expunge, or after a search that found         *)
(* nothing), or "none".  search says whether the search was sent and what  *)
(* it found.                                                               *)

UidFound(box, email_id) == \E i \in DOMAIN box : UidOf(box[i]) = email_id

DeleteEmailOnServer(srv, flg, folder, email_id, fault) ==
    LET sf == ServerFolder(folder)
        box == srv[sf]
        \* mail.store(email_id, '+FLAGS (\Deleted)'): by sequence number
        flg1 == IF email_id \in DOMAIN box THEN flg \cup {box[email_id]} ELSE flg
        \* mail.expunge(): every flagged message of the selected folder
        box2 == SelectSeq(box, LAMBDA m : m \notin flg1)
        flg2 == flg1 \ Range(box)
    IN  IF fault = "connect"
        THEN [server |-> srv, flagged |-> flg, result |-> "raise", search |-> ""]
        ELSE IF ~UidFound(box, email_id)
        THEN [server |-> srv, flagged |-> flg, search |-> "nothing",
              result |-> IF fault = "logout" THEN "raise" ELSE "False"]
        ELSE IF fault = "store"
        THEN [server |-> srv, flagged |-> flg1, result |-> "raise", search |-> "found"]
        ELSE [server |-> [srv EXCEPT ![sf] = box2], flagged |-> flg2, search |-> "found",
              result |-> IF fault = "logout" THEN "raise" ELSE "True"]

-----------------------------------------------------------------------------
(* MailTab (src/widgets.py).  The tab is the record tab; the operators     *)
(* below are its methods, each mapping the tab before the call to the tab  *)
(* after it.  tab.log describes the step being taken (which handler ran,   *)
(* what it appended, saved and started); every action starts it afresh.    *)
(* tab.at_sync_start is history as well: self.all_emails as the sync       *)
(* started last (sync_folder or sync_mailbox) found it; tab.forced_all is   *)
(* the deferred deletion the multi-folder sync started last was forced for *)
(* (<<>> when the Sync All button started it).                             *)

EmptyLog(op) ==
    [op |-> op, added |-> 0, saves |-> <<>>, all_synced |-> FALSE,
     forced |-> <<>>, started_sync |-> <<>>, started_delete |-> 0,
     removed |-> {}, target |-> {}, marked |-> {},
     search |-> "", result |-> "", ended |-> FALSE, raised |-> "", folders |-> <<>>]

\* the dedup key of a record
Key(e) == <<e.id, e.subject, e.from>>

Keys(emails) == {Key(emails[i]) : i \in DOMAIN emails}

\* IMAPWorker(...) with finished connected to the slot handler; stale is
\* history, not program state: the worker was started by a multi-folder sync
\* that a later one has replaced
NewIMAPWorker(folder, handler, forced) ==
    [attempt |-> 0, last_error |-> <<>>, out |-> <<>>, done |-> FALSE,
     folder |-> folder, handler |-> handler, forced |-> forced, stale |-> FALSE]

\* IMAPDeleteWorker(...); removed is history: the messages the attempts of
\* this worker have expunged
NewIMAPDeleteWorker(email_data) ==
    [attempt |-> 0, last_error |-> <<>>, out |-> <<>>, done |-> FALSE,
     folder |-> email_data.folder, email_id |-> email_data.id,
     email_data |-> email_data, removed |-> {}]

SetLoadingState(t, loading) == [t EXCEPT !.buttons = ~loading]

FilterEmailsByFolder(t, folder_name) ==
    IF t.all_emails = <<>> THEN t
    ELSE IF folder_name = "All Folders"
    THEN [t EXCEPT !.emails = SortedReverse(t.all_emails, DateKeys(t.all_emails))]
    ELSE IF folder_name = "Inbox"
    THEN [t EXCEPT !.emails = SelectSeq(t.all_emails, LAMBDA e : e.folder \in {"Inbox", "INBOX"})]
    ELSE [t EXCEPT !.emails = SelectSeq(t.all_emails, LAMBDA e : e.folder = folder_name)]

\* a FileIOWorker("save_cache") is started on self.all_emails; the step's log
\* keeps the list it is asked to write
SaveCachedEmails(t) ==
    [t EXCEPT !.log.saves = Append(@, t.all_emails)]

\* as UpdateConnectionStatus, but a failed sync leaves a tab that shows its
\* cache as it is
UpdateConnectionStatusKeepsCache(t, status) ==
    IF status = "cache" THEN [t EXCEPT !.is_connected = "None"]
    ELSE IF status = "True" THEN [t EXCEPT !.is_connected = "True"]
    ELSE IF t.is_connected = "None" THEN t
    ELSE [t EXCEPT !.is_connected = "False"]

UpdateConnectionStatus(t, status) ==
    IF status = "cache" THEN [t EXCEPT !.is_connected = "None"]
    ELSE IF status = "True" THEN [t EXCEPT !.is_connected = "True"]
    ELSE [t EXCEPT !.is_connected = "False"]

OnAllFoldersSynced(t, all_emails) ==
    LET sorted_emails == FirstN(SortedReverse(all_emails, DateKeys(all_emails)), ALL_FOLDERS_LIMIT)
        existing_ids == {t.all_emails[i].id : i \in DOMAIN t.all_emails}
        new_emails == SelectSeq(sorted_emails, LAMBDA e : e.id \notin existing_ids)
        t1 == [t EXCEPT !.all_emails = @ \o new_emails,
                        !.log.all_synced = TRUE,
                        !.log.added = Len(new_emails)]
        t2 == IF new_emails # <<>> THEN SaveCachedEmails(t1) ELSE t1
    IN  SetLoadingState(FilterEmailsByFolder(t2, t2.current), FALSE)

SyncNextFolder(t) ==
    IF t.current_folder_index >= Len(t.folders_to_sync)
    THEN OnAllFoldersSynced(t, t.all_emails)
    ELSE IF host = "" THEN SetLoadingState(t, FALSE)
    ELSE LET folder_name == t.folders_to_sync[t.current_folder_index + 1]
             w == NewIMAPWorker(folder_name, "_on_folder_emails_loaded", <<>>)
         IN  [t EXCEPT !.workers = Append(@, w),
                       !.log.started_sync = Append(@, folder_name)]

SyncMultipleFolders(t, folders) ==
    SyncNextFolder([t EXCEPT !.folders_to_sync = folders,
                             !.current_folder_index = 0,
                             !.all_emails = <<>>,
                             !.workers =
                                 [i \in DOMAIN @ |->
                                     IF @[i].handler = "_on_folder_emails_loaded"
                                     THEN [@[i] EXCEPT !.stale = TRUE] ELSE @[i]]])

SyncMailbox(t) ==
    LET t1 == [SetLoadingState(t, TRUE) EXCEPT !.last_sync_folder = "ALL",
                                               !.at_sync_start = t.all_emails]
        folders_to_sync == SelectSeq(t.combo, LAMBDA f : f # "" /\ f # "All Folders")
    IN  SyncMultipleFolders(t1, IF folders_to_sync = <<>> THEN <<"Inbox">> ELSE folders_to_sync)

\* variant: the worker is created whatever the host is
PerformSyncAnyHost(t, folder, forced) ==
    [t EXCEPT !.workers = Append(@, NewIMAPWorker(folder, "_on_emails_loaded", forced)),
              !.log.started_sync = Append(@, folder)]

PerformSync(t, folder, forced) ==
    IF host = "" THEN SetLoadingState(t, FALSE)
    ELSE [t EXCEPT !.workers = Append(@, NewIMAPWorker(folder, "_on_emails_loaded", forced)),
                   !.log.started_sync = Append(@, folder)]

\* forced: the deferred deletion this sync is forced for (<<>> when none)
SyncFolder(t, forced) ==
    IF t.current = "All Folders" THEN SyncMailbox([t EXCEPT !.forced_all = forced])
    ELSE PerformSync([SetLoadingState(t, TRUE) EXCEPT !.last_sync_folder = t.current,
                                                      !.at_sync_start = t.all_emails],
                     t.current, forced)

\* reply: the user's answer (Yes = TRUE) to the dialog the call shows
DeleteEmail(t, email_data, reply) ==
    IF t.is_connected # "True"
    THEN IF reply
         THEN SyncFolder([t EXCEPT !.pending = <<email_data>>], <<email_data>>)
         ELSE t
    ELSE IF ~reply THEN t
    ELSE IF host = "" THEN t
    ELSE [t EXCEPT !.delete_workers = Append(@, NewIMAPDeleteWorker(email_data)),
                   !.log.started_delete = @ + 1]

CheckPendingDelete(t, reply) ==
    IF t.pending # <<>>
    THEN DeleteEmail([t EXCEPT !.pending = <<>>], Head(t.pending), reply)
    ELSE t

\* variant: the deleted record alone is dropped from the list, which is saved;
\* no resync
OnEmailDeletedPatchInPlace(t, success, email_data) ==
    IF success
    THEN SaveCachedEmails([t EXCEPT !.all_emails = SelectSeq(@, LAMBDA e : e # email_data),
                                    !.emails = SelectSeq(@, LAMBDA e : e # email_data)])
    ELSE t

OnEmailDeletedFromServer(t, success, email_data) ==
    IF success
    THEN SyncFolder(SaveCachedEmails([t EXCEPT !.all_emails = <<>>, !.emails = <<>>]), <<>>)
    ELSE t

\* variant: a failed deletion is followed by a sync of the folder shown
OnEmailDeleteErrorResyncs(t, error_msg) == SyncFolder(t, <<>>)

\* _on_email_delete_error: the cursor is restored and a dialog shown
OnEmailDeleteError(t, error_msg) == t

\* variant: no record is checked against the keys seen
NewEmailsUnchecked(emails, existing_keys) == emails

\* variant: the key of an accepted record is not added to the keys seen
NewEmailsKeysNotExtended(emails, existing_keys) ==
    SelectSeq(emails, LAMBDA e : Key(e) \notin existing_keys)

\* the for loop of _on_emails_loaded: the records whose key is unseen
RECURSIVE NewEmails(_, _)
NewEmails(emails, existing_keys) ==
    IF emails = <<>> THEN <<>>
    ELSE LET email == Head(emails)
         IN  IF Key(email) \notin existing_keys
             THEN <<email>> \o NewEmails(Tail(emails), existing_keys \cup {Key(email)})
             ELSE NewEmails(Tail(emails), existing_keys)

TagFolder(emails, folder_name) ==
    [i \in DOMAIN emails |-> [emails[i] EXCEPT !.folder = folder_name]]

\* variant: the save is requested whenever the batch is not empty
MergeEmailsSaveOnBatch(t, emails) ==
    LET folder_name == IF t.last_sync_folder # "" /\ t.last_sync_folder # "ALL"
                       THEN t.last_sync_folder ELSE "Inbox"
        new_emails == NewEmails(TagFolder(emails, folder_name), Keys(t.all_emails))
        t1 == [t EXCEPT !.all_emails = @ \o new_emails,
                        !.log.added = Len(new_emails)]
    IN  IF emails # <<>> THEN SaveCachedEmails(t1) ELSE t1

\* variant: the accepted records are put in front of the list
MergeEmailsPrepends(t, emails) ==
    LET folder_name == IF t.last_sync_folder # "" /\ t.last_sync_folder # "ALL"
                       THEN t.last_sync_folder ELSE "Inbox"
        new_emails == NewEmails(TagFolder(emails, folder_name), Keys(t.all_emails))
        t1 == [t EXCEPT !.all_emails = new_emails \o @,
                        !.log.added = Len(new_emails)]
    IN  IF new_emails # <<>> THEN SaveCachedEmails(t1) ELSE t1

\* _on_emails_loaded up to the save: the merge into self.all_emails
MergeEmails(t, emails) ==
    LET folder_name == IF t.last_sync_folder # "" /\ t.last_sync_folder # "ALL"
                       THEN t.last_sync_folder ELSE "Inbox"
        new_emails == NewEmails(TagFolder(emails, folder_name), Keys(t.all_emails))
        t1 == [t EXCEPT !.all_emails = @ \o new_emails,
                        !.log.added = Len(new_emails)]
    IN  IF new_emails # <<>> THEN SaveCachedEmails(t1) ELSE t1

OnEmailsLoaded(t, emails, reply) ==
    LET t1 == MergeEmails(t, emails)
        t2 == SetLoadingState(FilterEmailsByFolder(t1, t1.current), FALSE)
    IN  CheckPendingDelete(t2, reply)

\* folders_to_sync[current_folder_index] raises IndexError when a worker of an
\* abandoned multi-folder sync reports after the queue is exhausted: the slot
\* then ends without touching the tab
OnFolderEmailsLoaded(t, emails) ==
    IF t.current_folder_index >= Len(t.folders_to_sync) THEN t
    ELSE LET folder_name == t.folders_to_sync[t.current_folder_index + 1]
         IN  SyncNextFolder([t EXCEPT !.all_emails = @ \o TagFolder(emails, folder_name),
                                      !.current_folder_index = @ + 1])

OnError(t, error) ==
    SetLoadingState([t EXCEPT !.is_connected = "False"], FALSE)

OnCacheLoaded(t, cached_data) ==
    LET t1 == IF cached_data # <<>>
              THEN LET t2 == [t EXCEPT !.all_emails = Head(cached_data)]
                   IN  UpdateConnectionStatus(FilterEmailsByFolder(t2, t2.current), "cache")
              ELSE t
    IN  SetLoadingState(t1, FALSE)

ClearCachedEmails(t) ==
    [SetLoadingState(t, TRUE) EXCEPT !.all_emails = <<>>, !.emails = <<>>,
                                     !.clear_workers = Append(@, NewThread)]

OnCacheCleared(t) ==
    SetLoadingState(UpdateConnectionStatus(t, "False"), FALSE)

ResetFolderButton(t) == SetLoadingState(t, FALSE)

\* fetch_folders.  With a host the FolderWorker is built and two of its
\* signals are connected; then self.folder_worker.error is read, which a
\* FolderWorker does not have: the AttributeError leaves the handler before
\* start(), with the loading state set.  (The exception goes to
\* sys.excepthook; what is modelled is the tab it leaves behind.)
FetchFolders(t) ==
    IF host = "" THEN ResetFolderButton(SetLoadingState(t, TRUE))
    ELSE [SetLoadingState(t, TRUE) EXCEPT !.log.raised = "AttributeError"]

\* as OnFoldersLoaded, but only the spellings INBOX and Inbox are left out
OnFoldersLoadedExactInbox(t, folders) ==
    LET current_items == t.combo
        added == SelectSeq(folders, LAMBDA f : /\ f \notin Range(current_items)
                                               /\ f \notin {"INBOX", "Inbox"}
                                               /\ f # "All Folders")
        all == IF "All Folders" \notin Range(current_items) THEN <<"All Folders">> ELSE <<>>
    IN  [t EXCEPT !.combo = @ \o added \o all, !.log.folders = folders]

\* _on_folders_loaded; current_items is read once, before the loop
OnFoldersLoaded(t, folders) ==
    LET current_items == t.combo
        added == SelectSeq(folders, LAMBDA f : /\ f \notin Range(current_items)
                                               /\ Upper(f) # "INBOX"
                                               /\ f # "Inbox"
                                               /\ f # "All Folders")
        all == IF "All Folders" \notin Range(current_items) THEN <<"All Folders">> ELSE <<>>
    IN  [t EXCEPT !.combo = @ \o added \o all, !.log.folders = folders]

-----------------------------------------------------------------------------
(* Spec: the tab after construction, the user's actions, the worker        *)
(* threads' steps and the main thread's handling of their signals.         *)
(*                                                                         *)
(* tab.workers, tab.delete_workers, tab.clear_workers, tab.folder_workers  *)
(* are the started threads whose run() has not returned.  A thread emits its       *)
(* signals as run() returns; they are queued to the main thread, which     *)
(* handles one signal per step: tab.events holds, per returned thread, the *)
(* signals not yet handled, with what the connected slot captured.         *)
(* Signals of one thread are handled in the order emitted; signals of      *)
(* different threads and the user's actions interleave freely.             *)
(* The file written by a save worker is not read again before the next     *)
(* start, so Spec keeps the save requests (tab.log.saves) and not the      *)
(* writing threads.                                                        *)

Idle == <<>>

\* the cache file a previous session leaves after one sync of the Inbox
PreviousCache == TagFolder(FetchFolderEmails(InboxMessages), "Inbox")

InitTab ==
    [all_emails |-> <<>>, emails |-> <<>>,
     combo |-> <<"Inbox", "All Folders">>, current |-> "Inbox",
     is_connected |-> "False", pending |-> <<>>, last_sync_folder |-> "",
     at_sync_start |-> <<>>, forced_all |-> <<>>,
     folders_to_sync |-> <<>>, current_folder_index |-> 0,
     buttons |-> FALSE, cache_worker |-> TRUE,
     workers |-> <<>>, delete_workers |-> <<>>,
     clear_workers |-> <<>>, folder_workers |-> <<>>,
     events |-> <<>>,
     log |-> EmptyLog("__init__")]

Init ==
    /\ server = [INBOX |-> InboxMessages, Work |-> WorkMessages]
    /\ flagged = {}
    /\ disk \in {<<>>, <<PreviousCache>>}
    /\ host \in {"", "imap.example.org"}
    /\ tab = InitTab
    /\ clicks = 0
    /\ run = Idle
    /\ mg = Idle
    /\ ft = Idle /\ rs = Idle /\ io = Idle /\ app = Idle

Begin(op) == [tab EXCEPT !.log = EmptyLog(op)]

Click == clicks < MaxClicks /\ clicks' = clicks + 1

\* the signals a returned thread leaves queued, with the slot connected to
\* finished and the data its slots captured; folder is the thread's
\* self.folder, which no slot receives: it is kept as history
Posted(out, slot, forced, email_data, folder) ==
    [out |-> out, slot |-> slot, forced |-> forced, email_data |-> email_data,
     folder |-> folder]

\* a handled signal leaves the queue
Pop(events, i) ==
    IF Len(events[i].out) = 1 THEN RemoveAt(events, i)
    ELSE [events EXCEPT ![i].out = Tail(@)]

Queued(i, sig) == Head(tab.events[i].out).sig = sig

(* the cache load started by __init__ *)
LoadCache ==
    /\ tab.cache_worker
    /\ tab' = [OnCacheLoaded(Begin("_on_cache_loaded"), disk) EXCEPT !.cache_worker = FALSE]
    /\ UNCHANGED <<server, flagged, disk, host, clicks, run, mg, ft, rs, io, app>>

(* the user *)
ClickSync ==
    /\ tab.buttons /\ Click
    /\ tab' = SyncFolder(Begin("sync_folder"), <<>>)
    /\ UNCHANGED <<server, flagged, disk, host, run, mg, ft, rs, io, app>>

ClickSyncAll ==
    /\ tab.buttons /\ Click
    /\ tab' = SyncMailbox([Begin("sync_mailbox") EXCEPT !.forced_all = <<>>])
    /\ UNCHANGED <<server, flagged, disk, host, run, mg, ft, rs, io, app>>

ClickRefreshFolders ==
    /\ tab.buttons /\ Click
    /\ tab' = FetchFolders(Begin("fetch_folders"))
    /\ UNCHANGED <<server, flagged, disk, host, run, mg, ft, rs, io, app>>

ClickClearCache ==
    /\ tab.buttons /\ Click
    /\ tab' = ClearCachedEmails(Begin("clear_cache"))
    /\ UNCHANGED <<server, flagged, disk, host, run, mg, ft, rs, io, app>>

SelectFolder ==
    /\ Click
    /\ \E f \in Range(tab.combo) \ {tab.current} :
          tab' = FilterEmailsByFolder([Begin("_on_folder_changed") EXCEPT !.current = f], f)
    /\ UNCHANGED <<server, flagged, disk, host, run, mg, ft, rs, io, app>>

ClickDelete ==
    /\ Click
    /\ \E r \in DOMAIN tab.emails :
          tab' = DeleteEmail(Begin("_delete_email"), tab.emails[r], TRUE)
    /\ UNCHANGED <<server, flagged, disk, host, run, mg, ft, rs, io, app>>

(* the worker threads: one loop iteration (attempt) per step *)
IMAPWorkerRun ==
    /\ \E i \in DOMAIN tab.workers : \E ok \in BOOLEAN :
          LET w == tab.workers[i]
              w2 == IF ok
                    THEN IMAPWorkerSuccess(w, FetchFolderEmails(server[ServerFolder(w.folder)]))
                    ELSE IMAPWorkerFail(w, "timeout")
          IN  tab' = IF w2.done
                     THEN [Begin("IMAPWorker.run") EXCEPT
                             !.workers = RemoveAt(@, i),
                             !.events = Append(@, Posted(w2.out, w.handler, w.forced, <<>>, w.folder))]
                     ELSE [Begin("IMAPWorker.run") EXCEPT !.workers[i] = w2]
    /\ UNCHANGED <<server, flagged, disk, host, clicks, run, mg, ft, rs, io, app>>

IMAPDeleteWorkerRun ==
    \E j \in DOMAIN tab.delete_workers :
       \E fault \in {"none", "connect", "store", "logout"} :
          LET w == tab.delete_workers[j]
              r == DeleteEmailOnServer(server, flagged, w.folder, w.email_id, fault)
              box == server[ServerFolder(w.folder)]
              w1 == [w EXCEPT !.removed = @ \cup (Range(box) \ Range(r.server[ServerFolder(w.folder)]))]
              w2 == IF r.result = "raise" THEN IMAPDeleteWorkerFail(w1, "timeout")
                    ELSE IMAPDeleteWorkerSuccess(w1, r.result = "True")
              t0 == [Begin("IMAPDeleteWorker.run") EXCEPT
                        !.log.target = {w.email_data.body},
                        !.log.removed = Range(box) \ Range(r.server[ServerFolder(w.folder)]),
                        !.log.marked = r.flagged \ flagged,
                        !.log.search = r.search,
                        !.log.result = r.result,
                        !.log.ended = w2.done]
          IN  /\ fault = "store" => UidFound(box, w.email_id)
              /\ server' = r.server
              /\ flagged' = r.flagged
              /\ tab' = IF w2.done
                        THEN [t0 EXCEPT
                                !.delete_workers = RemoveAt(@, j),
                                !.events = Append(@, Posted(w2.out, "", <<>>, <<w.email_data>>, w.folder))]
                        ELSE [t0 EXCEPT !.delete_workers[j] = w2]
              /\ UNCHANGED <<disk, host, clicks, run, mg, ft, rs, io, app>>

\* FileIOWorker._clear_cache: the file is unlinked, cache_cleared(True) emitted
ClearWorkerRun ==
    /\ tab.clear_workers # <<>>
    /\ tab' = [Begin("FileIOWorker._clear_cache") EXCEPT
                 !.clear_workers = Tail(@),
                 !.events = Append(@, Posted(<<[sig |-> "cache_cleared"]>>, "", <<>>, <<>>, ""))]
    /\ disk' = <<>>
    /\ UNCHANGED <<server, flagged, host, clicks, run, mg, ft, rs, io, app>>

(* the main thread: one queued signal handled per step *)
ConnectionStatusSignal ==
    /\ \E i \in DOMAIN tab.events :
          /\ Queued(i, "connection_status")
          /\ tab' = UpdateConnectionStatus(
                       [Begin("_update_connection_status") EXCEPT
                           !.events = Pop(@, i),
                           !.log.result = Head(tab.events[i].out).status],
                       Head(tab.events[i].out).status)
    /\ UNCHANGED <<server, flagged, disk, host, clicks, run, mg, ft, rs, io, app>>

EmailsLoadedSignal ==
    /\ \E i \in DOMAIN tab.events : \E reply \in BOOLEAN :
          /\ Queued(i, "finished")
          /\ tab.events[i].slot = "_on_emails_loaded"
          /\ reply = FALSE => tab.pending # <<>>
          /\ tab' = OnEmailsLoaded(
                       [Begin("_on_emails_loaded") EXCEPT !.events = Pop(@, i),
                                                          !.log.forced = tab.events[i].forced],
                       Head(tab.events[i].out).emails, reply)
    /\ UNCHANGED <<server, flagged, disk, host, clicks, run, mg, ft, rs, io, app>>

FolderEmailsLoadedSignal ==
    /\ \E i \in DOMAIN tab.events :
          /\ Queued(i, "finished")
          /\ tab.events[i].slot = "_on_folder_emails_loaded"
          /\ tab' = OnFolderEmailsLoaded(
                       [Begin("_on_folder_emails_loaded") EXCEPT !.events = Pop(@, i)],
                       Head(tab.events[i].out).emails)
    /\ UNCHANGED <<server, flagged, disk, host, clicks, run, mg, ft, rs, io, app>>

ErrorSignal ==
    /\ \E i \in DOMAIN tab.events :
          /\ Queued(i, "error")
          /\ tab.events[i].email_data = <<>>
          /\ tab' = OnError([Begin("_on_error") EXCEPT !.events = Pop(@, i),
                                                       !.log.forced = tab.events[i].forced],
                            Head(tab.events[i].out).msg)
    /\ UNCHANGED <<server, flagged, disk, host, clicks, run, mg, ft, rs, io, app>>

DeletedSignal ==
    /\ \E i \in DOMAIN tab.events :
          /\ Queued(i, "deleted")
          /\ tab' = OnEmailDeletedFromServer(
                       [Begin("_on_email_deleted_from_server") EXCEPT !.events = Pop(@, i)],
                       Head(tab.events[i].out).success,
                       Head(tab.events[i].email_data))
    /\ UNCHANGED <<server, flagged, disk, host, clicks, run, mg, ft, rs, io, app>>

DeleteErrorSignal ==
    /\ \E i \in DOMAIN tab.events :
          /\ Queued(i, "error")
          /\ tab.events[i].email_data # <<>>
          /\ tab' = OnEmailDeleteError(
                       [Begin("_on_email_delete_error") EXCEPT !.events = Pop(@, i)],
                       Head(tab.events[i].out).msg)
    /\ UNCHANGED <<server, flagged, disk, host, clicks, run, mg, ft, rs, io, app>>

CacheClearedSignal ==
    /\ \E i \in DOMAIN tab.events :
          /\ Queued(i, "cache_cleared")
          /\ tab' = OnCacheCleared([Begin("_on_cache_cleared") EXCEPT !.events = Pop(@, i)])
    /\ UNCHANGED <<server, flagged, disk, host, clicks, run, mg, ft, rs, io, app>>

Next ==
    \/ LoadCache
    \/ ClickSync
    \/ ClickSyncAll
    \/ ClickRefreshFolders
    \/ ClickClearCache
    \/ SelectFolder
    \/ ClickDelete
    \/ IMAPWorkerRun
    \/ IMAPDeleteWorkerRun
    \/ ClearWorkerRun
    \/ ConnectionStatusSignal
    \/ EmailsLoadedSignal
    \/ FolderEmailsLoadedSignal
    \/ ErrorSignal
    \/ DeletedSignal
    \/ DeleteErrorSignal
    \/ CacheClearedSignal

Spec == Init /\ [][Next]_vars

-----------------------------------------------------------------------------
(* SpecAll: syncs of the whole mailbox on accounts of up to MaxFolders      *)
(* folders.  The behaviour starts when the tab has loaded the cache of a   *)
(* previous session and _on_folders_loaded has put the account's folders   *)
(* into the folder list; the user then syncs all folders and deletes rows. *)
(* With one folder this is the tab as built; the longer lists are the ones *)
(* a delivered folders_fetched signal leaves (fetch_folders as it stands   *)
(* raises before it starts the worker that emits it, see FetchFolders).    *)
(* The delete workers a click starts are scheduled in Spec, not here.      *)

MaxFolders == 9     \* SpecAll: folders of the account

\* the names the folder worker returns for an account of n folders
AccountFolders(n) ==
    FirstN(<<"INBOX", "Work", "F3", "F4", "F5", "F6", "F7", "F8", "F9", "F10", "F11">>, n)

\* a folder of k messages
Mailbox(k) == [i \in 1..k |-> i + 1]

InitAll ==
    /\ flagged = {}
    /\ disk = <<PreviousCache>>
    /\ host = "imap.example.org"
    /\ clicks = 0
    /\ run = Idle /\ mg = Idle /\ ft = Idle /\ rs = Idle /\ io = Idle /\ app = Idle
    /\ \E n \in 1..MaxFolders, current \in {"Inbox", "All Folders"} :
          /\ server = [f \in Range(AccountFolders(n)) |-> Mailbox(1)]
          /\ tab = LET t1 == OnCacheLoaded([InitTab EXCEPT !.cache_worker = FALSE], disk)
                       t2 == OnFoldersLoaded(t1, AccountFolders(n))
                   IN  FilterEmailsByFolder([t2 EXCEPT !.current = current], current)

NextAll ==
    \/ ClickSyncAll
    \/ ClickDelete
    \/ IMAPWorkerRun
    \/ ConnectionStatusSignal
    \/ EmailsLoadedSignal
    \/ FolderEmailsLoadedSignal
    \/ ErrorSignal

SpecAll == InitAll /\ [][NextAll]_vars

-----------------------------------------------------------------------------
(* SpecMailbox: the Sync All button alone, on accounts of up to MaxFolders *)
(* folders that hold one message each or FETCH_LIMIT messages each.        *)

InitMailbox ==
    /\ flagged = {}
    /\ disk = <<PreviousCache>>
    /\ host = "imap.example.org"
    /\ clicks = 0
    /\ run = Idle /\ mg = Idle /\ ft = Idle /\ rs = Idle /\ io = Idle /\ app = Idle
    /\ \E n \in 1..MaxFolders, k \in {1, FETCH_LIMIT} :
          /\ server = [f \in Range(AccountFolders(n)) |-> Mailbox(k)]
          /\ tab = OnFoldersLoaded(OnCacheLoaded([InitTab EXCEPT !.cache_worker = FALSE], disk),
                                   AccountFolders(n))

NextMailbox ==
    \/ ClickSyncAll
    \/ IMAPWorkerRun
    \/ ConnectionStatusSignal
    \/ FolderEmailsLoadedSignal
    \/ ErrorSignal

SpecMailbox == InitMailbox /\ [][NextMailbox]_vars

-----------------------------------------------------------------------------
(* SpecWorker: one run of IMAPWorker.run or IMAPDeleteWorker.run, one loop *)
(* iteration per step.  run.w is the thread, run.hist the attempts made:   *)
(* whether each succeeded, why it failed, what it fetched, and how many    *)
(* signals the thread had emitted when the attempt ended.                  *)

\* why an attempt fails: asyncio.TimeoutError, or an exception with this text
Causes == {"timeout", "Connection refused", "Authentication failed"}

\* w: the thread after the iteration; timeout is the one handed to
\* asyncio.wait_for, slept the seconds slept before the next iteration
Attempt(kind, ok, cause, emails, w) ==
    [ok |-> ok, cause |-> cause, emails |-> emails, emitted |-> Len(w.out),
     timeout |-> IF kind = "sync"
                 THEN Timeout(sync_base_timeout, sync_timeout_step, w.attempt - 1)
                 ELSE Timeout(delete_base_timeout, delete_timeout_step, w.attempt - 1),
     slept |-> IF ok THEN 0 ELSE Pause(w.attempt - 1)]

InitWorker ==
    /\ server = [INBOX |-> InboxMessages, Work |-> WorkMessages]
    /\ flagged = {}
    /\ disk = <<>>
    /\ host = "imap.example.org"
    /\ tab = InitTab
    /\ clicks = 0
    /\ mg = Idle
    /\ ft = Idle /\ rs = Idle /\ io = Idle /\ app = Idle
    /\ run \in {[kind |-> k, w |-> NewThread, hist |-> <<>>] : k \in {"sync", "delete"}}

SyncAttemptFails ==
    /\ run.kind = "sync" /\ ~run.w.done
    /\ \E cause \in Causes :
          LET w == IMAPWorkerFail(run.w, cause)
          IN  run' = [run EXCEPT !.w = w, !.hist = Append(@, Attempt(run.kind, FALSE, cause, <<>>, w))]
    /\ UNCHANGED <<server, flagged, disk, host, tab, clicks, mg, ft, rs, io, app>>

SyncAttemptSucceeds ==
    /\ run.kind = "sync" /\ ~run.w.done
    /\ \E folder \in DOMAIN server :
          LET emails == FetchFolderEmails(server[folder])
              w == IMAPWorkerSuccess(run.w, emails)
          IN  run' = [run EXCEPT !.w = w, !.hist = Append(@, Attempt(run.kind, TRUE, "", emails, w))]
    /\ UNCHANGED <<server, flagged, disk, host, tab, clicks, mg, ft, rs, io, app>>

DeleteAttemptFails ==
    /\ run.kind = "delete" /\ ~run.w.done
    /\ \E cause \in Causes :
          LET w == IMAPDeleteWorkerFail(run.w, cause)
          IN  run' = [run EXCEPT !.w = w, !.hist = Append(@, Attempt(run.kind, FALSE, cause, <<>>, w))]
    /\ UNCHANGED <<server, flagged, disk, host, tab, clicks, mg, ft, rs, io, app>>

\* _delete_email returns True (expunged) or False (not found)
DeleteAttemptSucceeds ==
    /\ run.kind = "delete" /\ ~run.w.done
    /\ \E success \in BOOLEAN :
          LET w == IMAPDeleteWorkerSuccess(run.w, success)
          IN  run' = [run EXCEPT !.w = w, !.hist = Append(@, Attempt(run.kind, TRUE, "", <<>>, w))]
    /\ UNCHANGED <<server, flagged, disk, host, tab, clicks, mg, ft, rs, io, app>>

NextWorker ==
    \/ SyncAttemptFails
    \/ SyncAttemptSucceeds
    \/ DeleteAttemptFails
    \/ DeleteAttemptSucceeds

SpecWorker == InitWorker /\ [][NextWorker]_vars

\* C27: the attempts of a sync worker run with timeouts of 15, 20 and 25
\* seconds and those of a delete worker with 5, 7 and 9 seconds, and the
\* worker sleeps one second after a failed attempt only when another
\* attempt follows (after the first and the second, not after the third).
C27_TimeoutsAndPauses ==
    run # Idle =>
        \A i \in DOMAIN run.hist :
            /\ run.hist[i].timeout = IF run.kind = "sync" THEN <<15, 20, 25>>[i]
                                     ELSE <<5, 7, 9>>[i]
            /\ run.hist[i].slept = IF ~run.hist[i].ok /\ i < 3 THEN 1 ELSE 0

C27_Witness ==
    /\ run # Idle /\ run.kind = "delete" /\ run.w.done
    /\ Len(run.hist) = 3
    /\ \A i \in 1..3 : ~run.hist[i].ok
    /\ run.hist[3].timeout = 9 /\ run.hist[3].slept = 0

-----------------------------------------------------------------------------
(* SpecMerge: the single-folder merge (_on_emails_loaded) and the          *)
(* all-folders merge (_on_all_folders_synced) applied to a drawn cache and *)
(* a drawn batch, once and then a second time with the same batch.  The    *)
(* all-folders merge is applied to the drawn lists (path "all") and as the *)
(* mailbox sync reaches it, when the batch of its last folder arrives      *)
(* (path "mailbox").                                                       *)

\* the records batches and caches are drawn from: two keys, two bodies each
MergeRecords ==
    {[id |-> i, from |-> "alice", subject |-> "s1", date |-> i, body |-> b, folder |-> ""] :
        i \in {1, 2}, b \in {1, 2}}

RECURSIVE ListsUpTo(_, _)
ListsUpTo(S, n) ==
    IF n = 0 THEN {<<>>}
    ELSE LET shorter == ListsUpTo(S, n - 1)
         IN  shorter \cup {Append(l, x) : l \in shorter, x \in S}

\* the tab of a session that synced the folder Inbox (path "single") or the
\* mailbox (path "all") and now holds cache
MergeTab(path, cache) ==
    [InitTab EXCEPT !.all_emails = cache,
                    !.last_sync_folder = IF path = "single" THEN "Inbox" ELSE "ALL",
                    !.cache_worker = FALSE]

InitMerge ==
    /\ server = [INBOX |-> InboxMessages, Work |-> WorkMessages]
    /\ flagged = {}
    /\ disk = <<>>
    /\ host = "imap.example.org"
    /\ tab = InitTab
    /\ clicks = 0
    /\ run = Idle
    /\ ft = Idle /\ rs = Idle /\ io = Idle /\ app = Idle
    /\ \E path \in {"single", "all", "mailbox"} :
       \E cache \in ListsUpTo(MergeRecords, MaxCache) :
       \E batch \in ListsUpTo(MergeRecords, MaxBatch) :
          mg = [path |-> path, cache |-> TagFolder(cache, "Inbox"), batch |-> batch,
                n |-> 0, before |-> <<>>,
                t |-> MergeTab(path, TagFolder(cache, "Inbox"))]

\* the batch arrives through the finished signal of a single-folder sync
MergeSingle ==
    /\ mg.path = "single" /\ mg.n < 2
    /\ mg' = [mg EXCEPT !.n = @ + 1, !.before = mg.t.all_emails,
                        !.t = OnEmailsLoaded([@ EXCEPT !.log = EmptyLog("_on_emails_loaded")],
                                             mg.batch, TRUE)]
    /\ UNCHANGED <<server, flagged, disk, host, tab, clicks, run, ft, rs, io, app>>

\* the batch (tagged by _on_folder_emails_loaded) reaches _on_all_folders_synced
MergeAll ==
    /\ mg.path = "all" /\ mg.n < 2
    /\ mg' = [mg EXCEPT !.n = @ + 1, !.before = mg.t.all_emails,
                        !.t = OnAllFoldersSynced([@ EXCEPT !.log = EmptyLog("_on_all_folders_synced")],
                                                 TagFolder(mg.batch, "Inbox"))]
    /\ UNCHANGED <<server, flagged, disk, host, tab, clicks, run, ft, rs, io, app>>

\* a mailbox sync of the one folder Inbox: _sync_multiple_folders has emptied
\* the list and started the folder's worker, whose batch now arrives
MergeMailbox ==
    /\ mg.path = "mailbox" /\ mg.n < 2
    /\ mg' = [mg EXCEPT !.n = @ + 1, !.before = mg.t.all_emails,
                        !.t = OnFolderEmailsLoaded(
                                 [@ EXCEPT !.log = EmptyLog("_on_folder_emails_loaded"),
                                           !.folders_to_sync = <<"Inbox">>,
                                           !.current_folder_index = 0,
                                           !.all_emails = <<>>],
                                 mg.batch)]
    /\ UNCHANGED <<server, flagged, disk, host, tab, clicks, run, ft, rs, io, app>>

NextMerge ==
    \/ MergeSingle
    \/ MergeAll
    \/ MergeMailbox

SpecMerge == InitMerge /\ [][NextMerge]_vars

-----------------------------------------------------------------------------
(* Properties of Spec *)

LastDeleteWorker == tab.delete_workers[Len(tab.delete_workers)]

\* C1: whenever the delete worker reports a confirmed server deletion, the
\* handler empties the whole in-memory record list, requests a save of the
\* emptied list, and starts exactly one sync worker, for the selected folder
\* (for the selection "All Folders": the first worker of the mailbox sync).
C1_DeleteSuccessClearsSavesResyncsOnce ==
    tab.log.op = "_on_email_deleted_from_server" =>
        /\ tab.all_emails = <<>>
        /\ tab.emails = <<>>
        /\ tab.log.saves = << <<>> >>
        /\ Len(tab.log.started_sync) = 1
        /\ tab.workers # <<>>
        /\ tab.workers[Len(tab.workers)].folder = tab.log.started_sync[1]
        /\ IF tab.current = "All Folders"
           THEN tab.last_sync_folder = "ALL" /\ tab.log.started_sync[1] = tab.combo[1]
           ELSE tab.log.started_sync[1] = tab.current

\* a confirmed deletion was handled while records of the account were cached
\* on a server that lost the message
C1_Witness ==
    /\ tab.log.op = "_on_email_deleted_from_server"
    /\ Len(server["INBOX"]) < Len(InboxMessages)
    /\ tab.log.started_sync = <<"Inbox">>

\* C2: every mark-deleted + expunge sent for a user's delete of a displayed
\* record removes the server message that record was fetched from and never a
\* different message.
C2_DeleteRemovesOnlyTheRecordsMessage ==
    tab.log.op = "IMAPDeleteWorker.run" => tab.log.removed \subseteq tab.log.target

\* C3: a delete requested while the tab is not connected starts its delete
\* worker only on the successful completion of the sync forced by that request.
C3_DeferredDeleteWaitsForItsForcedSync ==
    (tab.log.op = "_on_emails_loaded" /\ tab.log.started_delete > 0) =>
        tab.log.forced = <<LastDeleteWorker.email_data>>

\* C8: no two records of the in-memory cache share the key (id, subject, from).
C8_NoTwoRecordsShareAKey ==
    Cardinality(Keys(tab.all_emails)) = Len(tab.all_emails)

\* C9: when a multi-folder sync reaches the all-folders-completed step having
\* fetched at least one record, a cache save is requested.
C9_AllFoldersCompletedRequestsSave ==
    (tab.log.all_synced /\ tab.all_emails # <<>>) => tab.log.saves # <<>>

\* C10: in the single-folder merge a cache save is requested if and only if
\* the merge appended at least one record: one save, of a list that holds the
\* appended records, when it appended; no save when it appended none.
C10_SaveIffAppended ==
    tab.log.op = "_on_emails_loaded" =>
        /\ tab.log.added > 0 => (Len(tab.log.saves) = 1 /\ Len(tab.log.saves[1]) >= tab.log.added)
        /\ tab.log.added = 0 => tab.log.saves = <<>>

\* a single-folder sync delivered records that were all cached already
C10_Witness ==
    /\ tab.log.op = "_on_emails_loaded"
    /\ tab.log.added = 0
    /\ tab.all_emails # <<>>
    /\ tab.log.saves = <<>>

NetworkSignals == {"connection_status", "finished", "error", "deleted",
                   "folders_fetched", "thread_finished"}

\* C12: with an empty effective host, single-folder sync, multi-folder sync,
\* folder refresh and delete create no worker (so nothing is sent to a
\* server) and end at once, with the buttons enabled again.
C12_NoHostNoWorker ==
    host = "" =>
        /\ tab.workers = <<>> /\ tab.delete_workers = <<>> /\ tab.folder_workers = <<>>
        /\ \A i \in DOMAIN tab.events :
              \A j \in DOMAIN tab.events[i].out :
                 tab.events[i].out[j].sig \notin NetworkSignals
        /\ tab.log.started_sync = <<>> /\ tab.log.started_delete = 0
        /\ tab.log.op \in {"sync_folder", "sync_mailbox", "fetch_folders", "_delete_email"}
              => tab.buttons
        /\ server = [INBOX |-> InboxMessages, Work |-> WorkMessages]

\* on an account without host the user confirmed the sync a delete asks for
C12_Witness ==
    /\ host = ""
    /\ tab.log.op = "_delete_email"
    /\ tab.pending # <<>>

C17_AtMostOneWorkerInFlight ==
    Len(tab.workers) + Len(tab.delete_workers) <= 1

\* C38: when the sync forced for a deferred deletion completes successfully,
\* the deferred deletion is attempted: the handler of the completion, be it
\* that of a single-folder sync or that of a sync of all folders, has read
\* the pending slot with the tab connected, so the slot is empty after it.
C38_ForcedSyncCompletionReadsPendingSlot ==
    /\ (tab.log.op = "_on_emails_loaded" /\ tab.log.forced # <<>>) => tab.pending = <<>>
    /\ (tab.log.all_synced /\ tab.forced_all # <<>>) => tab.pending = <<>>

\* C37: a pending deletion is consumed only by the completion of the sync
\* forced for it: when that sync has been refused for want of a host, or has
\* failed and _on_error has handled its error, the pending slot is empty.
C37_FailedForcedSyncEmptiesPendingSlot ==
    /\ (tab.log.op = "_delete_email" /\ host = "") => tab.pending = <<>>
    /\ (tab.log.op = "_on_error" /\ tab.log.forced # <<>>) => tab.pending = <<>>

\* C35: a sync that ends in failure leaves the record list as it was when the
\* sync was started: this holds when a sync button's handler has refused the
\* sync for want of a host, and when _on_error has handled the failure of a
\* sync worker whose retries are exhausted, for single-folder and
\* multi-folder syncs alike.
C35_FailedSyncKeepsRecords ==
    (\/ tab.log.op \in {"sync_folder", "sync_mailbox"} /\ host = ""
     \/ tab.log.op = "_on_error")
        => tab.all_emails = tab.at_sync_start

\* C34: one delete request removes at most one message from the server over
\* all attempts of its delete worker: after an attempt that failed once the
\* server had expunged, no later attempt expunges another message.
C34_OneRequestRemovesAtMostOneMessage ==
    \A j \in DOMAIN tab.delete_workers :
        Cardinality(tab.delete_workers[j].removed) <= 1

-----------------------------------------------------------------------------
(* Properties of SpecWorker *)

Signals(w) == {w.out[j].sig : j \in DOMAIN w.out}

\* the message of the failure of the third sync attempt
ThirdFailureMessage(cause) ==
    IF cause = "timeout" THEN [text |-> "Connection timeout after", seconds |-> 25]
    ELSE [text |-> cause, seconds |-> 0]

\* C4: a sync run whose first two attempts fail and whose third succeeds
\* reports status connected and delivers the fetched batch; a sync run whose
\* three attempts fail reports status disconnected and an error that carries
\* the message of the third failure.
C4_SyncRetryOutcome ==
    (run # Idle /\ run.kind = "sync" /\ Len(run.hist) = 3) =>
        /\ (~run.hist[1].ok /\ ~run.hist[2].ok /\ run.hist[3].ok) =>
              run.w.out = << [sig |-> "connection_status", status |-> "True"],
                             [sig |-> "finished", emails |-> run.hist[3].emails] >>
        /\ (~run.hist[1].ok /\ ~run.hist[2].ok /\ ~run.hist[3].ok) =>
              /\ Len(run.w.out) = 2
              /\ run.w.out[1] = [sig |-> "connection_status", status |-> "False"]
              /\ run.w.out[2].sig = "error"
              /\ run.w.out[2].msg.prefix = "Connection failed after"
              /\ run.w.out[2].msg.attempts = 3
              /\ run.w.out[2].msg.last_error = ThirdFailureMessage(run.hist[3].cause)

\* three attempts of a sync run failed, the third for another reason than the first
C4_Witness ==
    /\ run # Idle /\ run.kind = "sync" /\ run.w.done
    /\ Len(run.hist) = 3
    /\ ~run.hist[3].ok
    /\ run.hist[3].cause # run.hist[1].cause

\* C5: a run of a sync or delete worker makes at most 3 attempts, makes none
\* after a success, has emitted nothing when a failed attempt is followed by
\* another attempt, and ends with exactly one of the success event (finished,
\* deleted) and the error event.
C5_RunEndsWithOneOutcome ==
    run # Idle =>
        /\ Len(run.hist) <= 3
        /\ run.w.attempt = Len(run.hist)
        /\ \A i \in DOMAIN run.hist : run.hist[i].ok => i = Len(run.hist)
        /\ \A i \in DOMAIN run.hist : (~run.hist[i].ok /\ i < 3) => run.hist[i].emitted = 0
        /\ run.w.done <=> (Len(run.hist) = 3 \/ \E i \in DOMAIN run.hist : run.hist[i].ok)
        /\ ~run.w.done => run.w.out = <<>>
        /\ run.w.done =>
              /\ Cardinality({j \in DOMAIN run.w.out :
                                run.w.out[j].sig \in {"finished", "deleted", "error"}}) = 1
              /\ "error" \in Signals(run.w) <=> ~run.hist[Len(run.hist)].ok

\* a delete run ended with the success event after a failed attempt
C5_Witness ==
    /\ run # Idle /\ run.kind = "delete" /\ run.w.done
    /\ Len(run.hist) = 2
    /\ ~run.hist[1].ok /\ run.hist[2].ok
    /\ Signals(run.w) = {"deleted"}

-----------------------------------------------------------------------------
(* Properties of SpecMerge *)

\* C6: merging the same batch a second time immediately after merging it once
\* adds zero records to the cache and requests zero cache saves.
C6_SecondMergeAddsNothing ==
    (mg # Idle /\ mg.n = 2) =>
        /\ mg.t.all_emails = mg.before
        /\ mg.t.log.added = 0
        /\ mg.t.log.saves = <<>>

\* a batch was merged twice and its first merge had added records
C6_Witness ==
    /\ mg # Idle /\ mg.n = 2
    /\ Len(mg.t.all_emails) > Len(mg.cache)

\* the first record with key k in the list l
FirstWithKey(l, k) ==
    l[CHOOSE i \in DOMAIN l : Key(l[i]) = k /\ \A j \in 1..(i - 1) : Key(l[j]) # k]

SameKeyOtherBody(a, b) == Key(a) = Key(b) /\ a.body # b.body

\* C7: of the records with one key (id, subject, from) that reach the
\* single-folder merge, in the same batch or in different batches, only the
\* first is retained in the cache; the later ones are skipped.
C7_FirstRecordOfAKeyIsRetained ==
    (mg # Idle /\ mg.path = "single" /\ mg.n >= 1) =>
        LET arrived == mg.cache \o TagFolder(mg.batch, "Inbox")
            added == SubSeq(mg.t.all_emails, Len(mg.cache) + 1, Len(mg.t.all_emails))
        IN  /\ SubSeq(mg.t.all_emails, 1, Len(mg.cache)) = mg.cache
            /\ Len(added) = Cardinality(Keys(added))
            /\ Keys(added) = Keys(arrived) \ Keys(mg.cache)
            /\ \A i \in DOMAIN added : added[i] = FirstWithKey(arrived, Key(added[i]))

\* the batch held two records with one key and different bodies, and a record
\* whose key the cache held with another body
C7_Witness ==
    /\ mg # Idle /\ mg.path = "single" /\ mg.n >= 1
    /\ \E i, j \in DOMAIN mg.batch :
          /\ i < j /\ SameKeyOtherBody(mg.batch[i], mg.batch[j])
          /\ Key(mg.batch[i]) \notin Keys(mg.cache)
    /\ \E i \in DOMAIN mg.batch : \E c \in DOMAIN mg.cache :
          SameKeyOtherBody(mg.batch[i], mg.cache[c])

\* a can be had from b by leaving elements out
RECURSIVE IsSubsequence(_, _)
IsSubsequence(a, b) ==
    IF a = <<>> THEN TRUE
    ELSE IF b = <<>> THEN FALSE
    ELSE IF Head(a) = Head(b) THEN IsSubsequence(Tail(a), Tail(b))
    ELSE IsSubsequence(a, Tail(b))

\* C39: a single-folder merge is append-only: the records the cache held
\* before the merge are the head of the list after it, unchanged and in the
\* same order, and what follows them are records of the batch (tagged), in
\* batch order.
C39_SingleMergeIsAppendOnly ==
    (mg # Idle /\ mg.path = "single" /\ mg.n >= 1) =>
        /\ Len(mg.t.all_emails) >= Len(mg.before)
        /\ SubSeq(mg.t.all_emails, 1, Len(mg.before)) = mg.before
        /\ IsSubsequence(SubSeq(mg.t.all_emails, Len(mg.before) + 1, Len(mg.t.all_emails)),
                         TagFolder(mg.batch, "Inbox"))

\* a first merge into a cache that held records has skipped the first record
\* of its batch and accepted a later one
C39_Witness ==
    /\ mg # Idle /\ mg.path = "single" /\ mg.n = 1
    /\ Len(mg.before) = 1
    /\ Len(mg.batch) = 3
    /\ Key(mg.batch[1]) \in Keys(mg.before)
    /\ Len(mg.t.all_emails) = 2
    /\ mg.t.all_emails[2] \in {[mg.batch[i] EXCEPT !.folder = "Inbox"] : i \in 2..3}

-----------------------------------------------------------------------------
(* SpecFetch: one call of IMAPWorker._fetch_folder_emails on a folder that *)
(* holds ft.found messages, one message per step of its for loop.          *)
(* ft.email_ids is the list the loop iterates over, ft.next the position   *)
(* of the loop, ft.emails the records appended so far.                     *)

\* mail.search("ALL") on a folder of n messages: the sequence numbers 1..n
MaxFailures == 2    \* SpecFetch: messages of one attempt that give no record

SearchAll(n) == [i \in 1..n |-> i]

InitFetch ==
    /\ server = [INBOX |-> InboxMessages, Work |-> WorkMessages]
    /\ flagged = {}
    /\ disk = <<>>
    /\ host = "imap.example.org"
    /\ tab = InitTab
    /\ clicks = 0
    /\ run = Idle /\ mg = Idle /\ rs = Idle /\ io = Idle /\ app = Idle
    /\ \E n \in 0..MaxIds :
          ft = [found |-> SearchAll(n), selected |-> FALSE, email_ids |-> <<>>,
                next |-> 1, emails |-> <<>>, failed |-> {}, returned |-> FALSE]

\* the search, the early return on no IDs, and the selection of the IDs
FetchSelect ==
    /\ ~ft.selected
    /\ ft' = IF ft.found = <<>>
             THEN [ft EXCEPT !.selected = TRUE, !.returned = TRUE]
             ELSE [ft EXCEPT !.selected = TRUE, !.email_ids = SelectIds(ft.found)]
    /\ UNCHANGED <<server, flagged, disk, host, tab, clicks, run, mg, rs, io, app>>

\* one iteration of the for loop.  outcome "ok": the message is fetched,
\* parsed and appended; "not OK": the answer fails the test on result and
\* data and nothing is appended; "raise": the fetch or the parsing raises,
\* the except clause logs it and the loop goes on.  f.failed is history:
\* the IDs that gave no record.
FetchOneAbortsOnError(f, outcome) ==
    LET email_id == f.email_ids[f.next]
    IN  IF outcome = "ok"
        THEN [f EXCEPT !.next = @ + 1,
                       !.emails = Append(@, ParseEmail(email_id, f.found[email_id]))]
        ELSE IF outcome = "not OK"
        THEN [f EXCEPT !.next = @ + 1, !.failed = @ \cup {email_id}]
        ELSE [f EXCEPT !.next = Len(f.email_ids) + 1, !.failed = @ \cup {email_id}]

FetchOne(f, outcome) ==
    LET email_id == f.email_ids[f.next]
    IN  IF outcome = "ok"
        THEN [f EXCEPT !.next = @ + 1,
                       !.emails = Append(@, ParseEmail(email_id, f.found[email_id]))]
        ELSE [f EXCEPT !.next = @ + 1, !.failed = @ \cup {email_id}]

FetchNext ==
    /\ ft.selected /\ ~ft.returned
    /\ ft.next <= Len(ft.email_ids)
    /\ \E outcome \in {"ok", "not OK", "raise"} :
          /\ outcome # "ok" => Cardinality(ft.failed) < MaxFailures
          /\ ft' = FetchOne(ft, outcome)
    /\ UNCHANGED <<server, flagged, disk, host, tab, clicks, run, mg, rs, io, app>>

\* return emails
FetchReturn ==
    /\ ft.selected /\ ~ft.returned
    /\ ft.next > Len(ft.email_ids)
    /\ ft' = [ft EXCEPT !.returned = TRUE]
    /\ UNCHANGED <<server, flagged, disk, host, tab, clicks, run, mg, rs, io, app>>

NextFetch ==
    \/ FetchSelect
    \/ FetchNext
    \/ FetchReturn

SpecFetch == InitFetch /\ [][NextFetch]_vars

-----------------------------------------------------------------------------
(* Properties of SpecFetch *)

\* the loop, run to its end with every message giving a record, returns what
\* FetchFolderEmails returns in one step
FetchLoopAgrees ==
    (ft # Idle /\ ft.returned /\ ft.failed = {}) => ft.emails = FetchFolderEmails(ft.found)

\* C11: the fetcher processes exactly the 25 numerically largest IDs found
\* when more than 25 exist, and all of them otherwise, in descending ID order.
C11_ProcessesTheLargestIds ==
    (ft # Idle /\ ft.selected) =>
        /\ Len(ft.email_ids) = Min(Len(ft.found), 25)
        /\ \A i, j \in DOMAIN ft.email_ids : i < j => ft.email_ids[i] > ft.email_ids[j]
        /\ Range(ft.email_ids) \subseteq Range(ft.found)
        /\ \A x \in Range(ft.found) \ Range(ft.email_ids) :
              \A y \in Range(ft.email_ids) : x < y

\* C23: a message that gives no record does not end the loop: the list
\* returned holds one record for each selected ID that did not fail, and
\* only those, in the order the IDs were processed.
C23_FailedMessageIsSkipped ==
    (ft # Idle /\ ft.selected) =>
        LET done == SubSeq(ft.email_ids, 1, ft.next - 1)
            good == SelectSeq(done, LAMBDA id : id \notin ft.failed)
        IN  /\ ft.emails = [k \in 1..Len(good) |-> ParseEmail(good[k], ft.found[good[k]])]
            /\ ft.returned => ft.next = Len(ft.email_ids) + 1
            /\ ft.failed \subseteq Range(done)

C23_Witness ==
    /\ ft # Idle /\ ft.returned
    /\ Cardinality(ft.failed) = 2
    /\ Len(ft.email_ids) = FETCH_LIMIT
    /\ ft.email_ids[1] \in ft.failed
    /\ Len(ft.emails) = FETCH_LIMIT - 2

-----------------------------------------------------------------------------
(* The folder name resolver (src/workers.py).  A listing is the sequence   *)
(* of lines the server answers to LIST "" "*"; lines and names are         *)
(* strings, and the string operations are those of Python.                 *)

MaxLines == 3    \* lines of a listing

excluded_folders == <<"Arquivo Morto", "Archive", "Outbox">>

folder_mappings ==
    << [standard_name |-> "INBOX",  variations |-> <<"INBOX", "Inbox">>],
       [standard_name |-> "SENT",   variations |-> <<"SENT", "Sent", "Sent Items", "Sent Mail">>],
       [standard_name |-> "DRAFTS", variations |-> <<"DRAFTS", "Drafts", "Draft">>],
       [standard_name |-> "TRASH",  variations |-> <<"TRASH", "Trash", "Deleted", "Deleted Items">>],
       [standard_name |-> "SPAM",   variations |-> <<"SPAM", "Spam", "Junk", "Junk E-mail", "Bulk Mail">>],
       [standard_name |-> "NOTES",  variations |-> <<"NOTES", "Notes">> ] >>

\* str.find, counted from 1: the first place where d occurs in s, 0 if none
Find(s, d) ==
    LET hits == {i \in 1..(Len(s) - Len(d) + 1) : SubSeq(s, i, i + Len(d) - 1) = d}
    IN  IF hits = {} THEN 0 ELSE CHOOSE i \in hits : \A j \in hits : i <= j

\* d in s
Contains(s, d) == Find(s, d) # 0

\* s.split(d)
RECURSIVE Split(_, _)
Split(s, d) ==
    LET i == Find(s, d)
    IN  IF i = 0 THEN <<s>>
        ELSE <<SubSeq(s, 1, i - 1)>> \o Split(SubSeq(s, i + Len(d), Len(s)), d)

\* s.count(d)
Count(s, d) == Len(Split(s, d)) - 1

\* s.strip()
RECURSIVE Strip(_)
Strip(s) ==
    IF s = "" THEN s
    ELSE IF SubSeq(s, 1, 1) = " " THEN Strip(SubSeq(s, 2, Len(s)))
    ELSE IF SubSeq(s, Len(s), Len(s)) = " " THEN Strip(SubSeq(s, 1, Len(s) - 1))
    ELSE s

\* any(excluded in folder for excluded in excluded_folders)
ContainsExcluded(folder) ==
    \E k \in DOMAIN excluded_folders : Contains(folder, excluded_folders[k])

\* what one line adds to folder_names in FolderWorker._fetch_folders
ParseFolderLine(folder_info) ==
    IF Count(folder_info, "\"") >= 4
    THEN LET parts == Split(folder_info, "\"")
             folder_name == parts[4]
         IN  IF Len(parts) >= 4 /\ folder_name # "" /\ folder_name # "/"
             THEN <<folder_name>> ELSE <<>>
    ELSE IF Contains(folder_info, "\"/\"")
    THEN LET parts == Split(folder_info, "\"/\"")
             folder_name == Strip(parts[2])
         IN  IF Len(parts) > 1 /\ folder_name \notin {"/", "\"\"", ""}
             THEN <<folder_name>> ELSE <<>>
    ELSE <<>>

\* what one line adds to folder_names in IMAPWorker._fetch_all_folders
ParseAllFoldersLine(folder_info) ==
    LET quoted == Count(folder_info, "\"") >= 4
        folder_name ==
            IF quoted
            THEN LET parts == Split(folder_info, "\"")
                 IN  IF Len(parts) >= 4 THEN <<parts[4]>> ELSE <<>>
            ELSE IF Contains(folder_info, "\"/\"")
            THEN LET parts == Split(folder_info, "\"/\"")
                 IN  IF Len(parts) > 1 THEN <<Strip(parts[2])>> ELSE <<>>
            ELSE <<>>
    IN  IF /\ folder_name # <<>>
           /\ folder_name[1] # "" /\ folder_name[1] # "/"
           /\ folder_name[1] \notin Range(excluded_folders)
           /\ ~ContainsExcluded(folder_name[1])
        THEN folder_name ELSE <<>>

\* as AppendBucket, but every raw name that is one of the variations is appended
RECURSIVE AppendBucketEveryAlias(_, _, _)
AppendBucketEveryAlias(sorted_folders, folder_names, variations) ==
    IF folder_names = <<>> THEN sorted_folders
    ELSE LET folder == Head(folder_names)
         IN  AppendBucketEveryAlias(
                 IF /\ folder \in Range(variations)
                    /\ folder \notin Range(excluded_folders)
                    /\ folder \notin Range(sorted_folders)
                 THEN Append(sorted_folders, folder) ELSE sorted_folders,
                 Tail(folder_names), variations)

\* one pass of the outer loop over folder_mappings: the scan of the raw
\* names stops at the first one that is appended
AppendBucket(sorted_folders, folder_names, variations) ==
    LET hits == {i \in DOMAIN folder_names :
                    /\ folder_names[i] \in Range(variations)
                    /\ folder_names[i] \notin Range(excluded_folders)
                    /\ folder_names[i] \notin Range(sorted_folders)}
    IN  IF hits = {} THEN sorted_folders
        ELSE Append(sorted_folders,
                    folder_names[CHOOSE i \in hits : \A j \in hits : i <= j])

\* as AppendOthers, but a name is left out only when it equals an excluded one
RECURSIVE AppendOthersExactMatchOnly(_, _)
AppendOthersExactMatchOnly(sorted_folders, folder_names) ==
    IF folder_names = <<>> THEN sorted_folders
    ELSE LET folder == Head(folder_names)
         IN  AppendOthersExactMatchOnly(
                 IF /\ folder \notin Range(sorted_folders)
                    /\ folder \notin Range(excluded_folders)
                 THEN Append(sorted_folders, folder) ELSE sorted_folders,
                 Tail(folder_names))

\* as AppendOthers, but a name is appended each time it occurs
RECURSIVE AppendOthersEachOccurrence(_, _)
AppendOthersEachOccurrence(sorted_folders, folder_names) ==
    IF folder_names = <<>> THEN sorted_folders
    ELSE LET folder == Head(folder_names)
         IN  AppendOthersEachOccurrence(
                 IF /\ folder \notin Range(excluded_folders)
                    /\ ~ContainsExcluded(folder)
                 THEN Append(sorted_folders, folder) ELSE sorted_folders,
                 Tail(folder_names))

\* the second loop: the remaining raw names in discovery order
RECURSIVE AppendOthers(_, _)
AppendOthers(sorted_folders, folder_names) ==
    IF folder_names = <<>> THEN sorted_folders
    ELSE LET folder == Head(folder_names)
         IN  AppendOthers(
                 IF /\ folder \notin Range(sorted_folders)
                    /\ folder \notin Range(excluded_folders)
                    /\ ~ContainsExcluded(folder)
                 THEN Append(sorted_folders, folder) ELSE sorted_folders,
                 Tail(folder_names))

-----------------------------------------------------------------------------
(* SpecResolve: one run of the resolver on a drawn listing, either in the  *)
(* folder worker or in the sync worker's all-folders fetch.                *)

ListingLines ==
    { "(\\HasNoChildren) \"/\" \"INBOX\"",
      "(\\HasNoChildren) \"/\" \"Sent Items\"",
      "(\\HasNoChildren) \"/\" \"Archive\"",
      "(\\HasNoChildren) \"/\" \"My Archive Folder\"",
      "(\\HasNoChildren) \"/\" Inbox",
      "(\\HasNoChildren) \"/\" \"Sent\"",
      "(\\HasNoChildren) \"/\" \"Work\"",
      "(\\Noselect) \"/\" \"/\"",
      "(\\Noselect) NIL Outbox" }

Listings == UNION {[1..n -> ListingLines] : n \in 0..MaxLines}

InitResolve ==
    /\ server = [INBOX |-> InboxMessages, Work |-> WorkMessages]
    /\ flagged = {}
    /\ disk = <<>>
    /\ host = "imap.example.org"
    /\ tab = InitTab
    /\ clicks = 0
    /\ run = Idle /\ mg = Idle /\ ft = Idle /\ io = Idle /\ app = Idle
    /\ \E folders \in Listings, worker \in {"FolderWorker", "IMAPWorker"} :
          rs = [worker |-> worker, folders |-> folders, next |-> 1,
                folder_names |-> <<>>, bucket |-> 1, sorted_folders |-> <<>>,
                returned |-> FALSE]

\* one iteration of the loop over the lines of the listing
ResolveParseLine ==
    /\ rs.next <= Len(rs.folders)
    /\ LET folder_info == rs.folders[rs.next]
       IN  rs' = [rs EXCEPT !.next = @ + 1,
                            !.folder_names =
                                @ \o IF rs.worker = "FolderWorker"
                                     THEN ParseFolderLine(folder_info)
                                     ELSE ParseAllFoldersLine(folder_info)]
    /\ UNCHANGED <<server, flagged, disk, host, tab, clicks, run, mg, ft, io, app>>

\* one iteration of the loop over folder_mappings
ResolveBucket ==
    /\ rs.worker = "FolderWorker"
    /\ rs.next > Len(rs.folders)
    /\ rs.bucket <= Len(folder_mappings)
    /\ rs' = [rs EXCEPT !.bucket = @ + 1,
                        !.sorted_folders =
                            AppendBucket(@, rs.folder_names,
                                         folder_mappings[rs.bucket].variations)]
    /\ UNCHANGED <<server, flagged, disk, host, tab, clicks, run, mg, ft, io, app>>

\* the second loop and return sorted_folders
ResolveOthers ==
    /\ rs.worker = "FolderWorker"
    /\ rs.next > Len(rs.folders)
    /\ rs.bucket > Len(folder_mappings)
    /\ ~rs.returned
    /\ rs' = [rs EXCEPT !.sorted_folders = AppendOthers(@, rs.folder_names),
                        !.returned = TRUE]
    /\ UNCHANGED <<server, flagged, disk, host, tab, clicks, run, mg, ft, io, app>>

\* the folders the all-folders fetch goes on to select: folder_names[:5]
ResolveFirstFive ==
    /\ rs.worker = "IMAPWorker"
    /\ rs.next > Len(rs.folders)
    /\ ~rs.returned
    /\ rs' = [rs EXCEPT !.sorted_folders = FirstN(rs.folder_names, 5),
                        !.returned = TRUE]
    /\ UNCHANGED <<server, flagged, disk, host, tab, clicks, run, mg, ft, io, app>>

NextResolve ==
    \/ ResolveParseLine
    \/ ResolveBucket
    \/ ResolveOthers
    \/ ResolveFirstFive

SpecResolve == InitResolve /\ [][NextResolve]_vars

-----------------------------------------------------------------------------
(* Properties of SpecResolve *)

ExampleListing ==
    << "(\\HasNoChildren) \"/\" \"INBOX\"",
       "(\\HasNoChildren) \"/\" \"Sent Items\"",
       "(\\HasNoChildren) \"/\" \"Archive\"" >>

\* C14: no name the resolver returns equals or contains Archive, Outbox or
\* Arquivo Morto, and the listing INBOX, Sent Items, Archive resolves to
\* [INBOX, Sent Items].
C14_NoExcludedNameIsReturned ==
    (rs # Idle /\ rs.returned) =>
        /\ \A i \in DOMAIN rs.sorted_folders :
              /\ rs.sorted_folders[i] \notin {"Archive", "Outbox", "Arquivo Morto"}
              /\ ~Contains(rs.sorted_folders[i], "Archive")
              /\ ~Contains(rs.sorted_folders[i], "Outbox")
              /\ ~Contains(rs.sorted_folders[i], "Arquivo Morto")
        /\ rs.folders = ExampleListing => rs.sorted_folders = <<"INBOX", "Sent Items">>

C14_Witness ==
    /\ rs # Idle /\ rs.returned /\ rs.worker = "FolderWorker"
    /\ "Archive" \in Range(rs.folder_names)
    /\ "My Archive Folder" \in Range(rs.folder_names)
    /\ rs.sorted_folders = <<"INBOX">>

\* the raw name a bucket chooses: the first one in discovery order that is
\* one of its aliases
Chosen(b) ==
    LET hits == {i \in DOMAIN rs.folder_names :
                    rs.folder_names[i] \in Range(folder_mappings[b].variations)}
    IN  IF hits = {} THEN <<>>
        ELSE <<rs.folder_names[CHOOSE i \in hits : \A j \in hits : i <= j]>>

ChosenNames ==
    Chosen(1) \o Chosen(2) \o Chosen(3) \o Chosen(4) \o Chosen(5) \o Chosen(6)

\* C15: the names chosen for the buckets come first in the output, in the
\* order INBOX, SENT, DRAFTS, TRASH, SPAM, NOTES, one per bucket (its first
\* matching raw name); the names after them are none of the chosen ones; and
\* if an INBOX alias was discovered the output starts with an INBOX alias.
C15_BucketsFirstInCanonicalOrder ==
    (rs # Idle /\ rs.returned /\ rs.worker = "FolderWorker") =>
        /\ Len(rs.sorted_folders) >= Len(ChosenNames)
        /\ FirstN(rs.sorted_folders, Len(ChosenNames)) = ChosenNames
        /\ \A i \in DOMAIN rs.sorted_folders :
              i > Len(ChosenNames) => rs.sorted_folders[i] \notin Range(ChosenNames)
        /\ (\E i \in DOMAIN rs.folder_names : rs.folder_names[i] \in {"INBOX", "Inbox"})
              => (rs.sorted_folders # <<>> /\ rs.sorted_folders[1] \in {"INBOX", "Inbox"})

C15_Witness ==
    /\ rs # Idle /\ rs.returned /\ rs.worker = "FolderWorker"
    /\ rs.folder_names = <<"Work", "Inbox", "INBOX">>
    /\ rs.sorted_folders = <<"Inbox", "Work", "INBOX">>

\* the parsed names that are not excluded
Eligible ==
    {name \in Range(rs.folder_names) :
        name \notin Range(excluded_folders) /\ ~ContainsExcluded(name)}

\* where a name was discovered first
FirstIndex(name) ==
    CHOOSE i \in DOMAIN rs.folder_names :
        /\ rs.folder_names[i] = name
        /\ \A j \in 1..(i - 1) : rs.folder_names[j] # name

\* C29: the output of the folder worker's resolver holds every parsed name
\* that is not excluded, each exactly once, also when the listing repeats a
\* name or holds several aliases of a bucket; the names not chosen for a
\* bucket follow the chosen ones in the order they were discovered.
C29_EveryNameOnceOthersInDiscoveryOrder ==
    (rs # Idle /\ rs.returned /\ rs.worker = "FolderWorker") =>
        /\ Range(rs.sorted_folders) = Eligible
        /\ \A i, j \in DOMAIN rs.sorted_folders :
              i # j => rs.sorted_folders[i] # rs.sorted_folders[j]
        /\ \A i, j \in DOMAIN rs.sorted_folders :
              (Len(ChosenNames) < i /\ i < j) =>
                  FirstIndex(rs.sorted_folders[i]) < FirstIndex(rs.sorted_folders[j])

C29_Witness ==
    /\ rs # Idle /\ rs.returned /\ rs.worker = "FolderWorker"
    /\ rs.folder_names = <<"Sent", "Sent Items", "Sent">>
    /\ rs.sorted_folders = <<"Sent", "Sent Items">>

-----------------------------------------------------------------------------
(* SpecFolders: the folder selector of one tab under deliveries of the     *)
(* folder worker's folders_fetched signal, each carrying what the resolver *)
(* makes of a drawn listing (or the empty list run() emits when the fetch  *)
(* raises), and under changes of the selection.  These are the deliveries  *)
(* _on_folders_loaded is connected for; fetch_folders as it stands raises  *)
(* before it starts the worker (see FetchFolders), and the selector then   *)
(* stays as __init__ built it.                                             *)

RECURSIVE ParseFolderLines(_)
ParseFolderLines(folders) ==
    IF folders = <<>> THEN <<>>
    ELSE ParseFolderLine(Head(folders)) \o ParseFolderLines(Tail(folders))

\* the loop over folder_mappings, from bucket on
RECURSIVE AppendBuckets(_, _, _)
AppendBuckets(sorted_folders, folder_names, bucket) ==
    IF bucket > Len(folder_mappings) THEN sorted_folders
    ELSE AppendBuckets(AppendBucket(sorted_folders, folder_names,
                                    folder_mappings[bucket].variations),
                       folder_names, bucket + 1)

\* FolderWorker._fetch_folders on a listing
FolderWorkerFetchFolders(folders) ==
    LET folder_names == ParseFolderLines(folders)
    IN  AppendOthers(AppendBuckets(<<>>, folder_names, 1), folder_names)

FolderListingLines ==
    { "(\\HasNoChildren) \"/\" \"INBOX\"",
      "(\\HasNoChildren) \"/\" \"inbox\"",
      "(\\HasNoChildren) \"/\" \"All Folders\"",
      "(\\HasNoChildren) \"/\" \"Sent\"",
      "(\\HasNoChildren) \"/\" \"Drafts\"",
      "(\\HasNoChildren) \"/\" Work" }

\* the lists a folder worker emits
FoldersFetched ==
    {FolderWorkerFetchFolders(folders) :
        folders \in UNION {[1..n -> FolderListingLines] : n \in 0..MaxLines}}

InitFolders ==
    /\ server = [INBOX |-> InboxMessages, Work |-> WorkMessages]
    /\ flagged = {}
    /\ disk = <<>>
    /\ host = "imap.example.org"
    /\ tab = OnCacheLoaded([InitTab EXCEPT !.cache_worker = FALSE], disk)
    /\ clicks = 0
    /\ run = Idle /\ mg = Idle /\ ft = Idle /\ rs = Idle /\ io = Idle /\ app = Idle

\* folders_fetched of a folder worker reaches _on_folders_loaded
FoldersFetchedSignal ==
    /\ Click
    /\ \E folders \in FoldersFetched :
          tab' = OnFoldersLoaded(Begin("_on_folders_loaded"), folders)
    /\ UNCHANGED <<server, flagged, disk, host, run, mg, ft, rs, io, app>>

NextFolders ==
    \/ FoldersFetchedSignal
    \/ SelectFolder

SpecFolders == InitFolders /\ [][NextFolders]_vars

-----------------------------------------------------------------------------
(* Properties of SpecFolders *)

\* C33: after any sequence of folder refreshes the folder selector holds
\* Inbox at position 0, exactly one All Folders entry, no name twice, and no
\* discovered name (an entry after position 0) that is INBOX in any case.
C33_SelectorWellFormed ==
    /\ tab.combo[1] = "Inbox"
    /\ Cardinality({i \in DOMAIN tab.combo : tab.combo[i] = "All Folders"}) = 1
    /\ \A i, j \in DOMAIN tab.combo : i # j => tab.combo[i] # tab.combo[j]
    /\ \A i \in DOMAIN tab.combo : i > 1 => Upper(tab.combo[i]) # "INBOX"

\* a second refresh has delivered inbox, All Folders and a name the selector
\* already held, and a new name
C33_Witness ==
    /\ tab.log.op = "_on_folders_loaded"
    /\ clicks = 2
    /\ tab.log.folders = <<"Sent", "inbox", "All Folders">>
    /\ tab.combo = <<"Inbox", "All Folders", "Work", "Sent">>

-----------------------------------------------------------------------------
(* The cache file (src/workers.py, FileIOWorker; src/widgets.py).  The     *)
(* file holds a JSON document, modelled as the tree json.dump writes:      *)
(* objects with their members in insertion order, arrays and strings.      *)

MaxOps == 3      \* SpecCache: handlers of the tab that run in one behaviour

account_email == "user@example.org"

\* the values datetime.now() takes
Clock ==
    {[year |-> 2026, month |-> 11, day |-> 2, hour |-> 6, minute |-> 32,
      second |-> 43, microsecond |-> us] : us \in {0, 42, 835123}}

\* "%0wd" % n
RECURSIVE ZeroPad(_, _)
ZeroPad(n, w) ==
    IF Len(ToString(n)) >= w THEN ToString(n)
    ELSE "0" \o ZeroPad(n, w - 1)

\* datetime.isoformat(): YYYY-MM-DDTHH:MM:SS, then .ffffff unless it is zero
IsoFormat(dt) ==
    ZeroPad(dt.year, 4) \o "-" \o ZeroPad(dt.month, 2) \o "-" \o ZeroPad(dt.day, 2)
        \o "T" \o ZeroPad(dt.hour, 2) \o ":" \o ZeroPad(dt.minute, 2)
        \o ":" \o ZeroPad(dt.second, 2)
        \o IF dt.microsecond = 0 THEN "" ELSE "." \o ZeroPad(dt.microsecond, 6)

JsonString(s) == [json |-> "string", text |-> s]

\* the object json.dump writes for one record: the keys of the dict in the
\* order they were set, 'folder' only when the record was tagged
DumpEmail(e) ==
    [json |-> "object",
     members |-> << <<"id", JsonString(e.id)>>, <<"from", JsonString(e.from)>>,
                    <<"subject", JsonString(e.subject)>>, <<"date", JsonString(e.date)>>,
                    <<"body_text", JsonString(e.body)>> >>
                 \o IF e.folder = "" THEN <<>> ELSE << <<"folder", JsonString(e.folder)>> >>]

\* json.dump(cache_data, f, indent=2)
JsonDump(cache_data) ==
    [json |-> "object",
     members |-> << <<"account_email", JsonString(cache_data.account_email)>>,
                    <<"last_updated", JsonString(cache_data.last_updated)>>,
                    <<"emails", [json |-> "array",
                                 items |-> [i \in DOMAIN cache_data.emails |->
                                               DumpEmail(cache_data.emails[i])]]>> >>]

HasMember(object, key) == \E i \in DOMAIN object.members : object.members[i][1] = key

Member(object, key) ==
    object.members[CHOOSE i \in DOMAIN object.members : object.members[i][1] = key][2]

\* the dict json.load builds from the object of one record
LoadEmail(object) ==
    [id |-> Member(object, "id").text, from |-> Member(object, "from").text,
     subject |-> Member(object, "subject").text, date |-> Member(object, "date").text,
     body |-> Member(object, "body_text").text,
     folder |-> IF HasMember(object, "folder") THEN Member(object, "folder").text ELSE ""]

\* as LoadEmails, but the array is read newest entry first
LoadEmailsReversed(items) ==
    [i \in DOMAIN items |-> LoadEmail(items[Len(items) + 1 - i])]

LoadEmails(items) == [i \in DOMAIN items |-> LoadEmail(items[i])]

\* json.load(f)
JsonLoad(document) ==
    [account_email |-> Member(document, "account_email").text,
     last_updated |-> Member(document, "last_updated").text,
     emails |-> LoadEmails(Member(document, "emails").items)]

\* the cache_data dict of _save_cached_emails; emails is the list object
\* self.all_emails itself (alias), not a copy of it
CacheData(t, now) ==
    [account_email |-> account_email, last_updated |-> IsoFormat(now),
     emails |-> t.all_emails, alias |-> TRUE]

-----------------------------------------------------------------------------
(* SpecCache: sessions of one account's tab with its persistence workers.  *)
(* io.t is the tab, io.file the cache file (<<>> when absent),             *)
(* io.save_workers the started save_cache workers with their cache_data,   *)
(* io.events the signals queued for the tab; io.written and io.last_op     *)
(* record the last write to the file, io.read what the last load found.    *)
(* io.torn says that the file holds the beginning of a document only: it   *)
(* was opened for writing and the dump did not finish.  io.saved is the    *)
(* last run of a save worker: what went wrong and the signals it emitted.  *)
(* io.clear_requested is history: the last thing asked of the tab was to   *)
(* clear the cache (no batch has arrived and no session started since).    *)
(* io.newest is history too: what the worker of the most recently          *)
(* requested save wrote (<<>> while it has not run, or when it failed);    *)
(* while io.newest_pending that worker is the last of io.save_workers.     *)

\* FileIOWorker.run for save_cache: _save_cache and the except clause of run.
\* fault "open": open() raises, the file is as before; fault "dump": the
\* file is open and truncated when json.dump or the write raises.
SaveCacheReportsSavedToo(w, file, torn, fault) ==
    IF fault = "none"
    THEN [file |-> <<JsonDump(w)>>, torn |-> FALSE, out |-> <<"cache_saved">>]
    ELSE [file |-> IF fault = "open" THEN file ELSE <<>>,
          torn |-> IF fault = "open" THEN torn ELSE TRUE,
          out |-> <<"error", "cache_saved">>]

SaveCache(w, file, torn, fault) ==
    IF fault = "none"
    THEN [file |-> <<JsonDump(w)>>, torn |-> FALSE, out |-> <<"cache_saved">>]
    ELSE [file |-> IF fault = "open" THEN file ELSE <<>>,
          torn |-> IF fault = "open" THEN torn ELSE TRUE,
          out |-> <<"error">>]

\* _on_cache_load_error
OnCacheLoadError(t) ==
    SetLoadingState([t EXCEPT !.all_emails = <<>>], FALSE)

\* the signals a file worker of this operation type emitted, queued for the
\* slots connected to them
FileSignals(out, op) == [i \in DOMAIN out |-> [signal |-> out[i], op |-> op]]

InitCache ==
    /\ server = [INBOX |-> InboxMessages, Work |-> WorkMessages]
    /\ flagged = {}
    /\ disk = <<>>
    /\ host = "imap.example.org"
    /\ tab = InitTab
    /\ clicks = 0
    /\ run = Idle /\ mg = Idle /\ ft = Idle /\ rs = Idle /\ app = Idle
    /\ io = [t |-> InitTab, file |-> <<>>, torn |-> FALSE, save_workers |-> <<>>,
             saved |-> [fault |-> "", out |-> <<>>],
             events |-> <<>>, ops |-> 0, clear_requested |-> FALSE,
             newest |-> <<>>, newest_pending |-> FALSE,
             written |-> <<>>, last_op |-> "",
             read |-> [after |-> "", written |-> <<>>, last_updated |-> ""]]

\* the load_cache worker started by __init__: _load_cache; json.load raises
\* on a torn file and run emits error
CacheLoadWorkerRun ==
    /\ io.t.cache_worker
    /\ \A i \in DOMAIN io.events : io.events[i].op # "load_cache"
    /\ io' = [io EXCEPT !.events = IF io.torn
                                   THEN @ \o FileSignals(<<"error">>, "load_cache")
                                   ELSE Append(@, [signal |-> "cache_loaded",
                                                   op |-> "load_cache",
                                                   cached_data |-> IF io.file = <<>> THEN <<>>
                                                                   ELSE <<JsonLoad(io.file[1])>>]),
                        !.read = [after |-> io.last_op, written |-> io.written,
                                  last_updated |-> IF io.file = <<>> THEN ""
                                                   ELSE JsonLoad(io.file[1]).last_updated]]
    /\ UNCHANGED <<server, flagged, disk, host, tab, clicks, run, mg, ft, rs, app>>

\* cache_loaded reaches _on_cache_loaded; the assignment rebinds all_emails
CacheLoadedSignal ==
    /\ io.events # <<>> /\ Head(io.events).signal = "cache_loaded"
    /\ LET cached_data == Head(io.events).cached_data
           t0 == [io.t EXCEPT !.log = EmptyLog("_on_cache_loaded")]
           t1 == OnCacheLoaded(t0, IF cached_data = <<>> THEN <<>>
                                   ELSE <<cached_data[1].emails>>)
       IN  io' = [io EXCEPT !.t = [t1 EXCEPT !.cache_worker = FALSE],
                            !.events = Tail(@),
                            !.save_workers =
                                [i \in DOMAIN @ |->
                                    IF cached_data = <<>> THEN @[i]
                                    ELSE [@[i] EXCEPT !.alias = FALSE]]]
    /\ UNCHANGED <<server, flagged, disk, host, tab, clicks, run, mg, ft, rs, app>>

\* a sync delivers a batch to _on_emails_loaded: the merge extends the list in
\* place, so the started save workers that hold it see the extension, and
\* each save it requests starts one more save worker; the sync buttons are
\* enabled only once the cache load has been handled
CacheEmailsLoaded ==
    /\ io.ops < MaxOps
    /\ ~io.t.cache_worker
    /\ \E e \in MergeRecords, now \in Clock :
          LET t0 == [io.t EXCEPT !.log = EmptyLog("_on_emails_loaded")]
              t1 == OnEmailsLoaded(t0, <<e>>, TRUE)
              held == [i \in DOMAIN io.save_workers |->
                          IF io.save_workers[i].alias
                          THEN [io.save_workers[i] EXCEPT !.emails = t1.all_emails]
                          ELSE io.save_workers[i]]
          IN  io' = [io EXCEPT !.t = t1, !.ops = @ + 1, !.clear_requested = FALSE,
                               !.save_workers =
                                   IF t1.log.saves = <<>> THEN held
                                   ELSE Append(held, CacheData(t1, now)),
                               !.newest = IF t1.log.saves = <<>> THEN @ ELSE <<>>,
                               !.newest_pending = (t1.log.saves # <<>>) \/ @]
    /\ UNCHANGED <<server, flagged, disk, host, tab, clicks, run, mg, ft, rs, app>>

\* a save_cache worker runs
CacheSaveWorkerRun ==
    /\ \E i \in DOMAIN io.save_workers : \E fault \in {"none", "open", "dump"} :
          LET r == SaveCache(io.save_workers[i], io.file, io.torn, fault)
          IN  io' = [io EXCEPT !.file = r.file,
                               !.torn = r.torn,
                               !.save_workers = RemoveAt(@, i),
                               !.saved = [fault |-> fault, out |-> r.out],
                               !.newest = IF io.newest_pending /\ i = Len(io.save_workers)
                                             /\ fault = "none"
                                          THEN <<io.save_workers[i].emails>> ELSE @,
                               !.newest_pending = @ /\ i # Len(io.save_workers),
                               !.events = @ \o FileSignals(r.out, "save_cache"),
                               !.written = IF fault = "none" THEN io.save_workers[i].emails
                                           ELSE @,
                               !.last_op = IF fault = "none" THEN "save"
                                           ELSE IF fault = "dump" THEN "save failed"
                                           ELSE @]
    /\ UNCHANGED <<server, flagged, disk, host, tab, clicks, run, mg, ft, rs, app>>

\* cache_saved reaches _on_cache_saved, error reaches _on_cache_save_error:
\* each writes a line to the log
CacheSaveSignal ==
    /\ io.events # <<>>
    /\ Head(io.events).op = "save_cache"
    /\ io' = [io EXCEPT !.t.log = EmptyLog(IF Head(io.events).signal = "error"
                                           THEN "_on_cache_save_error"
                                           ELSE "_on_cache_saved"),
                        !.events = Tail(@)]
    /\ UNCHANGED <<server, flagged, disk, host, tab, clicks, run, mg, ft, rs, app>>

\* error of the load_cache worker reaches _on_cache_load_error
CacheLoadErrorSignal ==
    /\ io.events # <<>>
    /\ Head(io.events).op = "load_cache" /\ Head(io.events).signal = "error"
    /\ io' = [io EXCEPT !.t = [OnCacheLoadError([@ EXCEPT !.log = EmptyLog("_on_cache_load_error")])
                                  EXCEPT !.cache_worker = FALSE],
                        !.events = Tail(@)]
    /\ UNCHANGED <<server, flagged, disk, host, tab, clicks, run, mg, ft, rs, app>>

\* deleted(True) of a delete worker reaches _on_email_deleted_from_server:
\* all_emails is rebound to a new empty list, a save of that list is
\* requested and a sync of the folder shown is started (its batch is one of
\* those CacheEmailsLoaded delivers)
CacheEmailDeleted ==
    /\ io.ops < MaxOps
    /\ ~io.t.cache_worker
    /\ \E r \in DOMAIN io.t.emails, now \in Clock :
          LET t0 == [io.t EXCEPT !.log = EmptyLog("_on_email_deleted_from_server")]
              t1 == OnEmailDeletedFromServer(t0, TRUE, io.t.emails[r])
          IN  io' = [io EXCEPT !.t = t1, !.ops = @ + 1, !.clear_requested = FALSE,
                               !.save_workers =
                                   Append([i \in DOMAIN @ |-> [@[i] EXCEPT !.alias = FALSE]],
                                          CacheData(t1, now)),
                               !.newest = <<>>,
                               !.newest_pending = TRUE]
    /\ UNCHANGED <<server, flagged, disk, host, tab, clicks, run, mg, ft, rs, app>>

\* the user clears the cache: _clear_cached_emails rebinds all_emails
CacheClickClear ==
    /\ io.ops < MaxOps
    /\ io.t.buttons
    /\ io' = [io EXCEPT !.t = ClearCachedEmails([@ EXCEPT !.log = EmptyLog("_clear_cached_emails")]),
                        !.ops = @ + 1, !.clear_requested = TRUE,
                        !.save_workers = [i \in DOMAIN @ |-> [@[i] EXCEPT !.alias = FALSE]]]
    /\ UNCHANGED <<server, flagged, disk, host, tab, clicks, run, mg, ft, rs, app>>

\* the clear_cache worker runs: _clear_cache
CacheClearWorkerRun ==
    /\ io.t.clear_workers # <<>>
    /\ io' = [io EXCEPT !.file = <<>>, !.torn = FALSE, !.last_op = "clear",
                        !.t.clear_workers = Tail(@),
                        !.events = Append(@, [signal |-> "cache_cleared",
                                              op |-> "clear_cache"])]
    /\ UNCHANGED <<server, flagged, disk, host, tab, clicks, run, mg, ft, rs, app>>

CacheClearedDelivered ==
    /\ io.events # <<>> /\ Head(io.events).signal = "cache_cleared"
    /\ io' = [io EXCEPT !.t = OnCacheCleared([@ EXCEPT !.log = EmptyLog("_on_cache_cleared")]),
                        !.events = Tail(@)]
    /\ UNCHANGED <<server, flagged, disk, host, tab, clicks, run, mg, ft, rs, app>>

\* the application is closed once its workers have returned and is started
\* again: __init__ builds the tab and starts the load_cache worker
CacheRestart ==
    /\ io.ops < MaxOps
    /\ io.save_workers = <<>> /\ io.events = <<>> /\ io.t.clear_workers = <<>>
    /\ ~io.t.cache_worker
    /\ io' = [io EXCEPT !.t = InitTab, !.ops = @ + 1, !.clear_requested = FALSE]
    /\ UNCHANGED <<server, flagged, disk, host, tab, clicks, run, mg, ft, rs, app>>

NextCache ==
    \/ CacheLoadWorkerRun
    \/ CacheLoadedSignal
    \/ CacheEmailsLoaded
    \/ CacheSaveWorkerRun
    \/ CacheSaveSignal
    \/ CacheLoadErrorSignal
    \/ CacheEmailDeleted
    \/ CacheClickClear
    \/ CacheClearWorkerRun
    \/ CacheClearedDelivered
    \/ CacheRestart

SpecCache == InitCache /\ [][NextCache]_vars

-----------------------------------------------------------------------------
(* Properties of SpecCache *)

Digits == {"0", "1", "2", "3", "4", "5", "6", "7", "8", "9"}

\* the extended ISO-8601 form of a local date and time, with or without a
\* fraction of six digits
IsIso8601(s) ==
    /\ Len(s) \in {19, 26}
    /\ \A i \in 1..Len(s) :
          LET c == SubSeq(s, i, i)
          IN  IF i \in {5, 8} THEN c = "-"
              ELSE IF i = 11 THEN c = "T"
              ELSE IF i \in {14, 17} THEN c = ":"
              ELSE IF i = 20 THEN c = "."
              ELSE c \in Digits

KeySeq(emails) == [i \in DOMAIN emails |-> Key(emails[i])]

\* C16: a load that reads the file right after a save wrote it gives the tab
\* the records that save wrote, key by key and in the same order, and a
\* last_updated in ISO-8601 form.
C16_SaveThenLoadRoundTrip ==
    (io # Idle /\ io.t.log.op = "_on_cache_loaded" /\ io.read.after = "save") =>
        /\ KeySeq(io.t.all_emails) = KeySeq(io.read.written)
        /\ IsIso8601(io.read.last_updated)

C16_Witness ==
    /\ io # Idle /\ io.t.log.op = "_on_cache_loaded" /\ io.read.after = "save"
    /\ Len(io.read.written) = 2
    /\ Key(io.read.written[1]) # Key(io.read.written[2])
    /\ io.t.all_emails = io.read.written
    /\ Len(io.read.last_updated) = 26

\* C25: a save worker that fails emits error and nothing else, its step
\* leaves the tab alone, and the handling of its error leaves the records
\* held in memory, the rows shown and the connection status as they were.
C25_FailedSaveChangesNothing ==
    [][/\ (Len(io'.save_workers) < Len(io.save_workers) /\ io'.saved.fault # "none") =>
             /\ io'.events = io.events \o FileSignals(<<"error">>, "save_cache")
             /\ io'.t = io.t
       /\ (/\ io.events # <<>>
           /\ Head(io.events) = [signal |-> "error", op |-> "save_cache"]
           /\ io'.events = Tail(io.events)) =>
             /\ io'.t.log.op = "_on_cache_save_error"
             /\ [io'.t EXCEPT !.log = io.t.log] = io.t]_vars

C25_Witness ==
    /\ io # Idle
    /\ io.t.log.op = "_on_cache_save_error"
    /\ io.saved.fault = "dump"
    /\ io.t.all_emails # <<>>
    /\ io.t.is_connected = "None"

\* no persistence worker of the account is running and no signal of one is
\* waiting to be handled
PersistenceQuiet ==
    io.save_workers = <<>> /\ io.t.clear_workers = <<>> /\ io.events = <<>>

\* C31: once a cache clear has been requested and every persistence worker
\* of the account has finished, the cache file does not exist, the record
\* list is empty and the status is disconnected, whatever save was in flight
\* when the clear was requested.
C31_ClearLeavesNoCache ==
    (io # Idle /\ io.clear_requested /\ PersistenceQuiet) =>
        /\ io.file = <<>> /\ ~io.torn
        /\ io.t.all_emails = <<>>
        /\ io.t.is_connected = "False"

\* C36: once every persistence worker of the account has finished, the
\* cache file holds the record list of the most recently requested save: when
\* the last operation on the file was a save, what it wrote is what the
\* worker of the newest request wrote, never the list of an earlier request.
C36_NewestSaveWins ==
    (io # Idle /\ PersistenceQuiet /\ io.newest # <<>> /\ io.last_op = "save") =>
        io.written = io.newest[1]

-----------------------------------------------------------------------------
(* Properties of SpecAll *)

\* the workers in flight that the current multi-folder sync started
FolderWorkersInFlight ==
    {i \in DOMAIN tab.workers :
        tab.workers[i].handler = "_on_folder_emails_loaded" /\ ~tab.workers[i].stale}

Handled ==
    {i \in DOMAIN tab.events :
        /\ Queued(i, "finished")
        /\ tab.events[i].slot = tab'.log.op
        /\ tab'.events = Pop(tab.events, i)}

-----------------------------------------------------------------------------
(* The main window (src/mailtime_app.py, MailClient).  app.accounts is     *)
(* config["accounts"], a list of dicts; a tab holds the dict of its        *)
(* account, here the position of the dict in the list.  app.threads are    *)
(* the started threads that have not returned: owner is the account of the *)
(* tab that started it (0: the window), tracked says where closeEvent can  *)
(* find it: "active_workers", "worker" (the tab's self.worker) or "".      *)
(* app.log is history: the handler that ran and the accounts before it.    *)

MaxAccounts == 2    \* SpecApp: accounts in the configuration file
MaxAppOps == 2      \* SpecApp: actions of the user in one behaviour

\* the addresses typed into the account dialog
Emails == <<"a@example.org", "b@example.org", "A@example.org">>

\* no two accounts of the list have the same address, case aside
DistinctEmails(accounts) ==
    \A i, j \in DOMAIN accounts :
        i # j => Lower(accounts[i].email) # Lower(accounts[j].email)

\* the account lists a configuration file holds that sessions of adding,
\* hiding and showing accounts have written
ConfigFiles ==
    {file \in UNION {[1..n -> [email : Range(Emails), name : {"n1"}, hidden : BOOLEAN]] :
                        n \in 0..MaxAccounts} : DistinctEmails(file)}

AppThread(kind, owner, tracked) ==
    [kind |-> kind, owner |-> owner, tracked |-> tracked, running |-> TRUE,
     quit |-> FALSE, terminated |-> FALSE]

AppLog(a, op) == [a EXCEPT !.log = [op |-> op, before |-> a.accounts]]

\* _save_config: the worker is given the dict self.config itself
SaveConfig(a) ==
    [a EXCEPT !.threads = Append(@, AppThread("save_config", 0, "active_workers"))]

\* _add_mail_tab, _add_mail_tab_at_position: MailTab.__init__ starts the load
\* of the account's cache
AddMailTab(a, account_index) ==
    LET before == {i \in DOMAIN a.tabs : a.tabs[i] < account_index}
        target_position == Cardinality({j \in 1..(account_index - 1) : ~a.accounts[j].hidden})
        position == Min(target_position, Len(a.tabs))
    IN  [a EXCEPT !.tabs = SubSeq(@, 1, position) \o <<account_index>>
                               \o SubSeq(@, position + 1, Len(@)),
                  !.threads = Append(@, AppThread("load_cache", account_index, ""))]

\* _on_config_loaded
OnConfigLoaded(a, config) ==
    LET RECURSIVE AddTabs(_, _)
        AddTabs(b, i) ==
            IF i > Len(config) THEN b
            ELSE AddTabs(IF config[i].hidden THEN b
                         ELSE [b EXCEPT !.tabs = Append(@, i),
                                        !.threads = Append(@, AppThread("load_cache", i, ""))],
                         i + 1)
    IN  AddTabs([a EXCEPT !.accounts = config, !.loaded = TRUE], 1)

\* add_account: a dialog accepted with this email
AddAccount(a, email) ==
    IF \E i \in DOMAIN a.accounts : Lower(a.accounts[i].email) = Lower(email) THEN a
    ELSE LET a1 == [a EXCEPT !.accounts = Append(@, [email |-> email, name |-> "n1",
                                                     hidden |-> FALSE])]
             a2 == SaveConfig(a1)
         IN  [a2 EXCEPT !.tabs = Append(@, Len(a1.accounts)),
                        !.threads = Append(@, AppThread("load_cache", Len(a1.accounts), ""))]

\* as CloseTab, but the account of the tab is taken out of the list
CloseTabRemovesAccount(a, index) ==
    LET account == a.tabs[index]
    IN  SaveConfig([a EXCEPT !.accounts = RemoveAt(@, account),
                             !.tabs = <<>>])

\* close_tab: the first account equal to the tab's is hidden
CloseTab(a, index) ==
    LET account == a.tabs[index]
        first == CHOOSE i \in DOMAIN a.accounts :
                    /\ a.accounts[i] = a.accounts[account]
                    /\ \A j \in 1..(i - 1) : a.accounts[j] # a.accounts[account]
        a1 == [a EXCEPT !.accounts[first].hidden = TRUE]
    IN  [SaveConfig(a1) EXCEPT !.tabs = RemoveAt(@, index)]

\* switch_to_account_tab on a double-clicked entry of the accounts list
SwitchToAccountTab(a, account_index) ==
    IF a.accounts[account_index].hidden
    THEN LET a1 == SaveConfig([a EXCEPT !.accounts[account_index].hidden = FALSE])
         IN  AddMailTab(a1, account_index)
    ELSE a

\* MailTab.edit_account: the dialog's data (name, email and the rest of the
\* form) updates the account dict in place
EditAccount(a, index, name, email) ==
    SaveConfig([a EXCEPT !.accounts[a.tabs[index]].name = name,
                         !.accounts[a.tabs[index]].email = email])

\* clear_all_accounts, the user answering reply to the confirmation
ClearAllAccounts(a, reply) ==
    IF a.accounts = <<>> \/ ~reply THEN a
    ELSE SaveConfig([a EXCEPT !.tabs = <<>>, !.cache_files = {}, !.accounts = <<>>])

\* closeEvent on one thread: quit() and a bounded wait, then terminate();
\* stops tells whether the thread has ended when the handler goes on.  A
\* worker of active_workers is waited for after terminate(), a tab's worker
\* is not; a thread in neither place is not looked at.
CloseThread(th, in_time, stops) ==
    IF th.tracked = "active_workers"
    THEN [th EXCEPT !.quit = TRUE, !.terminated = ~in_time, !.running = FALSE]
    ELSE IF th.tracked = "worker"
    THEN [th EXCEPT !.quit = TRUE, !.terminated = ~in_time,
                    !.running = ~in_time /\ ~stops]
    ELSE th

\* what a tab's handlers start: sync_folder and sync_mailbox rebind
\* self.worker, the other threads are kept in attributes closeEvent does
\* not read
TabStartsThread(a, index, kind) ==
    LET account == a.tabs[index]
        others == [i \in DOMAIN a.threads |->
                      IF kind = "sync" /\ a.threads[i].owner = account
                                       /\ a.threads[i].tracked = "worker"
                      THEN [a.threads[i] EXCEPT !.tracked = ""] ELSE a.threads[i]]
    IN  [a EXCEPT !.threads = Append(others, AppThread(kind, account,
                                                     IF kind = "sync" THEN "worker" ELSE ""))]

-----------------------------------------------------------------------------
(* SpecApp: one session of the application, from MailClient.__init__ to    *)
(* closeEvent.                                                             *)

\* (the folder worker is built by fetch_folders but never started)
TabThreadKinds == {"sync", "delete", "save_cache", "clear_cache"}

InitApp ==
    /\ server = [INBOX |-> InboxMessages, Work |-> WorkMessages]
    /\ flagged = {}
    /\ disk = <<>>
    /\ host = "imap.example.org"
    /\ tab = InitTab
    /\ clicks = 0
    /\ run = Idle /\ mg = Idle /\ ft = Idle /\ rs = Idle /\ io = Idle
    /\ \E file \in ConfigFiles :
          app = [accounts |-> <<>>, loaded |-> FALSE, tabs |-> <<>>,
                 threads |-> <<AppThread("load_config", 0, "active_workers")>>,
                 file |-> file,
                 cache_files |-> {file[i].email : i \in DOMAIN file},
                 ops |-> 0, closed |-> FALSE,
                 log |-> [op |-> "__init__", before |-> <<>>]]

AppOp == ~app.closed /\ app.loaded /\ app.ops < MaxAppOps

\* a thread returns; a worker of active_workers is removed from the list by
\* _cleanup_worker; the load_config worker hands the file to _on_config_loaded,
\* a save_config worker has written the dict self.config as it is now
AppThreadReturns ==
    /\ ~app.closed
    /\ \E i \in DOMAIN app.threads :
          LET th == app.threads[i]
              a1 == [AppLog(app, th.kind) EXCEPT !.threads = RemoveAt(@, i)]
          IN  app' = IF th.kind = "load_config" THEN OnConfigLoaded(a1, app.file)
                     ELSE IF th.kind = "save_config" THEN [a1 EXCEPT !.file = app.accounts]
                     ELSE IF th.kind = "save_cache"
                     THEN [a1 EXCEPT !.cache_files = @ \cup {app.accounts[j].email :
                                                             j \in {th.owner} \cap DOMAIN app.accounts}]
                     ELSE IF th.kind = "clear_cache"
                     THEN [a1 EXCEPT !.cache_files = @ \ {app.accounts[j].email :
                                                           j \in {th.owner} \cap DOMAIN app.accounts}]
                     ELSE a1
    /\ UNCHANGED <<server, flagged, disk, host, tab, clicks, run, mg, ft, rs, io>>

AppAddAccount ==
    /\ AppOp
    /\ \E i \in DOMAIN Emails :
          app' = [AddAccount(AppLog(app, "add_account"), Emails[i]) EXCEPT !.ops = @ + 1]
    /\ UNCHANGED <<server, flagged, disk, host, tab, clicks, run, mg, ft, rs, io>>

AppCloseTab ==
    /\ AppOp
    /\ \E index \in DOMAIN app.tabs :
          app' = [CloseTab(AppLog(app, "close_tab"), index) EXCEPT !.ops = @ + 1]
    /\ UNCHANGED <<server, flagged, disk, host, tab, clicks, run, mg, ft, rs, io>>

AppSwitchToAccountTab ==
    /\ AppOp
    /\ \E account_index \in DOMAIN app.accounts :
          app' = [SwitchToAccountTab(AppLog(app, "switch_to_account_tab"), account_index)
                     EXCEPT !.ops = @ + 1]
    /\ UNCHANGED <<server, flagged, disk, host, tab, clicks, run, mg, ft, rs, io>>

AppEditAccount ==
    /\ AppOp
    /\ \E index \in DOMAIN app.tabs, name \in {"n1", "n2"}, email \in Range(Emails) :
          app' = [EditAccount(AppLog(app, "edit_account"), index, name, email)
                     EXCEPT !.ops = @ + 1]
    /\ UNCHANGED <<server, flagged, disk, host, tab, clicks, run, mg, ft, rs, io>>

AppClearAllAccounts ==
    /\ AppOp
    /\ \E reply \in BOOLEAN :
          app' = [ClearAllAccounts(AppLog(app, IF reply THEN "clear_all_accounts"
                                               ELSE "clear_all_accounts declined"), reply)
                     EXCEPT !.ops = @ + 1]
    /\ UNCHANGED <<server, flagged, disk, host, tab, clicks, run, mg, ft, rs, io>>

AppTabStartsThread ==
    /\ AppOp
    /\ \E index \in DOMAIN app.tabs, kind \in TabThreadKinds :
          app' = [TabStartsThread(AppLog(app, kind), index, kind) EXCEPT !.ops = @ + 1]
    /\ UNCHANGED <<server, flagged, disk, host, tab, clicks, run, mg, ft, rs, io>>

\* closeEvent: the workers of active_workers, then the worker of each open tab
AppCloseEvent ==
    /\ ~app.closed
    /\ \E in_time, stops \in BOOLEAN :
          app' = [AppLog(app, "closeEvent") EXCEPT
                     !.closed = TRUE,
                     !.threads = [i \in DOMAIN @ |->
                                     IF @[i].tracked = "worker" /\ @[i].owner \notin Range(app.tabs)
                                     THEN @[i]
                                     ELSE CloseThread(@[i], in_time, stops)]]
    /\ UNCHANGED <<server, flagged, disk, host, tab, clicks, run, mg, ft, rs, io>>

NextApp ==
    \/ AppThreadReturns
    \/ AppAddAccount
    \/ AppCloseTab
    \/ AppSwitchToAccountTab
    \/ AppEditAccount
    \/ AppClearAllAccounts
    \/ AppTabStartsThread
    \/ AppCloseEvent

SpecApp == InitApp /\ [][NextApp]_vars

-----------------------------------------------------------------------------
(* Properties of SpecApp *)

\* C21: when closeEvent returns, no thread the application started is still
\* running.
C21_NoThreadRunsAfterClose ==
    (app # Idle /\ app.closed) =>
        \A i \in DOMAIN app.threads : ~app.threads[i].running

\* the entries of the accounts list, the hidden flag and the edited name aside
Entries(accounts) == [i \in DOMAIN accounts |-> accounts[i].email]

\* C28: no handler but a confirmed clear-all takes an entry out of the
\* accounts list: closing a tab changes nothing but one hidden flag, which it sets, showing an
\* account keeps every entry, editing one rewrites that entry in its place
\* and keeps the others, and a confirmed clear-all leaves no account and no
\* cache file.
C28_OnlyClearAllRemovesAccounts ==
    app # Idle =>
        /\ app.log.op # "clear_all_accounts" =>
              /\ Len(app.accounts) >= Len(app.log.before)
              /\ app.log.op # "edit_account" =>
                    SubSeq(Entries(app.accounts), 1, Len(app.log.before))
                        = Entries(app.log.before)
        /\ app.log.op = "edit_account" =>
              /\ Len(app.accounts) = Len(app.log.before)
              /\ Cardinality({i \in DOMAIN app.accounts :
                                  app.accounts[i] # app.log.before[i]}) <= 1
              /\ \A i \in DOMAIN app.accounts :
                    app.accounts[i].hidden = app.log.before[i].hidden
        /\ app.log.op = "close_tab" =>
              /\ Len(app.accounts) = Len(app.log.before)
              /\ \A i \in DOMAIN app.accounts :
                    /\ [app.accounts[i] EXCEPT !.hidden = FALSE]
                          = [app.log.before[i] EXCEPT !.hidden = FALSE]
                    /\ app.log.before[i].hidden => app.accounts[i].hidden
              /\ Cardinality({i \in DOMAIN app.accounts :
                                  app.accounts[i].hidden /\ ~app.log.before[i].hidden}) <= 1
        /\ app.log.op = "clear_all_accounts" =>
              app.accounts = <<>> /\ app.cache_files = {}

C28_Witness ==
    /\ app # Idle
    /\ app.log.op = "close_tab"
    /\ Len(app.log.before) = 2
    /\ app.tabs # <<>>
    /\ \E i \in DOMAIN app.accounts : app.accounts[i].hidden /\ ~app.log.before[i].hidden

\* C32: no two account tabs read or write the same cache file: after any
\* sequence of adding, editing, hiding and showing accounts, the accounts of
\* the configuration have pairwise distinct addresses, compared without
\* regard to case.
C32_AccountsHaveDistinctEmails ==
    (app # Idle /\ app.loaded) => DistinctEmails(app.accounts)

-----------------------------------------------------------------------------
(* Properties of Spec: folder discovery, failed deletions and the          *)
(* connection status                                                       *)

\* what a failed deletion must leave alone: the records in memory, the rows
\* shown, the pending slot, the status and the threads in flight
DeleteFrame(t) ==
    <<t.all_emails, t.emails, t.pending, t.is_connected, t.workers, t.clear_workers,
      t.current, t.buttons>>

\* C26: a delete worker whose three attempts all fail emits the error signal
\* and nothing else; neither its last step nor the handling of the error
\* changes the records in memory, the cache file or the pending slot, and
\* none requests a save or starts a sync or another deletion.
C26_FailedDeleteChangesNothing ==
    [][/\ (/\ tab'.log.op = "IMAPDeleteWorker.run"
           /\ tab'.log.ended /\ tab'.log.result = "raise"
           /\ Len(tab'.delete_workers) < Len(tab.delete_workers)) =>
             /\ Len(tab'.events) = Len(tab.events) + 1
             /\ LET out == tab'.events[Len(tab'.events)].out
                IN  /\ Len(out) = 1
                    /\ out[1].sig = "error"
                    /\ out[1].msg.attempts = 3
             /\ DeleteFrame(tab') = DeleteFrame(tab)
             /\ disk' = disk
       /\ (tab'.log.op = "_on_email_delete_error" /\ tab'.events # tab.events) =>
             /\ DeleteFrame(tab') = DeleteFrame(tab)
             /\ tab'.delete_workers = tab.delete_workers
             /\ tab'.log.saves = <<>>
             /\ tab'.log.started_sync = <<>> /\ tab'.log.started_delete = 0
             /\ disk' = disk]_vars

C26_Witness ==
    /\ tab.log.op = "_on_email_delete_error"
    /\ tab.all_emails # <<>>
    /\ tab.is_connected = "True"
    /\ tab.delete_workers = <<>>

\* C24: folder discovery surfaces no error and delivers its list with one
\* folders-fetched event per run: when fetch_folders has run on a tab with a
\* host, nothing was raised and the folder worker that will emit the event
\* has been started.
C24_DiscoveryDeliversOneList ==
    (tab.log.op = "fetch_folders" /\ host # "") =>
        /\ tab.log.raised = ""
        /\ Len(tab.folder_workers) = 1

\* C22: the status of a tab is one of connected ("True"), cache ("None") and
\* disconnected ("False").  It becomes connected only when the status signal
\* of a sync worker that succeeded is handled, it becomes cache only when
\* _on_cache_loaded found a cache, and it is disconnected after the status
\* signal of a sync worker that used up its attempts is handled, after its
\* error is handled and after a cleared cache is handled; a handled status
\* signal never leaves cache.
C22_StatusFollowsLastSyncOrCache ==
    [][/\ tab'.is_connected \in {"True", "None", "False"}
       /\ tab'.log.op = "_update_connection_status" =>
             /\ tab'.log.result \in {"True", "False"}
             /\ tab'.is_connected = tab'.log.result
       /\ tab'.log.op \in {"_on_error", "_on_cache_cleared"} => tab'.is_connected = "False"
       /\ (tab'.is_connected = "True" /\ tab.is_connected # "True") =>
             tab'.log.op = "_update_connection_status"
       /\ (tab'.is_connected = "None" /\ tab.is_connected # "None") =>
             tab'.log.op = "_on_cache_loaded" /\ disk # <<>>
       /\ (tab'.is_connected = "False" /\ tab.is_connected # "False") =>
             tab'.log.op \in {"_update_connection_status", "_on_error", "_on_cache_cleared"}]_vars

C22_Witness ==
    /\ tab.log.op = "_update_connection_status"
    /\ tab.log.result = "False"
    /\ tab.is_connected = "False"
    /\ disk # <<>>
    /\ tab.all_emails # <<>>

====
